---- MODULE Spec2Model ----
(***************************************************************************)
(* Narrative session engine of moltworker: the in-memory SessionManager    *)
(* (narrative/session.ts) and the NarrativeEngine orchestrator             *)
(* (narrative/engine.ts), modelled as a state machine.                     *)
(*                                                                         *)
(* Spec        the SessionManager's public operations, each one atomic,    *)
(*             with the clock and the background sweep.                    *)
(* SpecEngine  the NarrativeEngine's operations; processInput is split at  *)
(*             its await, so that overlapping calls interleave.            *)
(* SpecEvents  the engine driven by game-master events.                    *)
(* SpecPersist the SessionManager with exportSession and importSession.    *)
(* SpecModels  the ModelManager (narrative/model-integration.ts).          *)
(* SpecChannels the channel adapters and the OmnichannelRouter             *)
(*             (narrative/omnichannel.ts), router calls split at awaits.   *)
(* SpecRender  the engine's render cache and the PersonaManager            *)
(*             (narrative/persona.ts).                                     *)
(* SpecGenerate the engine's text input with models that fail.             *)
(* SpecLookups the store, the engine and the PersonaManager asked for ids  *)
(*             they do not hold.                                           *)
(* SpecDialogue generateDialogue over personas with speech patterns.       *)
(* SpecFacade  the NarrativeClient (narrative/facade.ts) over the engine.  *)
(* SpecRouting the channel routeMessage resolves.                          *)
(* SpecOutbound deliverContent waiting for a channel adapter, with weak    *)
(*             fairness on the continuation of a settled send.             *)
(* SpecSaves   the store driven through choices, saves and loads.          *)
(* SpecConditions evaluateConditions over the variables of a session.      *)
(* SpecProbe   a health-check pass of the ModelManager, split at its       *)
(*             await, with failures reported meanwhile.                    *)
(* SpecIndependent two sessions of one story over the render cache.        *)
(* SpecCache   the AdvancedCache of narrative/enhancements.ts under lru.   *)
(* SpecEmitter the EventEmitter of narrative/enhancements.ts.              *)
(* SpecRepeat  the store asked again for choices it has accepted.          *)
(* SpecModulators the EmotionModulator of narrative/persona.ts.            *)
(***************************************************************************)
EXTENDS Integers, Sequences, FiniteSets, TLC

VARIABLES
  now,            \* Date.now()
  sessions,       \* session.ts: const sessions = new Map()
  sessionExpiry,  \* session.ts: const sessionExpiry = new Map()
  nextId,         \* the session ids uuidv4() has handed out so far
  ret,            \* the operation called last and what it returned
  exported,       \* the string the last exportSession call returned
  calls,          \* engine.ts: processInput calls in flight (async frames)
  activeSessions, \* engine.ts: NarrativeEngine.activeSessions (ids)
  models,         \* model-integration.ts: ModelManager.models, in insertion order
  healthStatus,   \* ModelManager.healthStatus: model id -> healthy
  fallbackChains, \* ModelManager.fallbackChains: request type -> chain of ids
  usageCount,     \* ModelManager.usageCount
  rotationStrategy, \* ModelManager.rotationConfig.rotationStrategy
  routerSessions, \* omnichannel.ts: OmnichannelRouter.activeSessions: id -> channel
  adapterSessions, \* the sessions the adapters have started and not ended
  flows,          \* omnichannel.ts: router calls in flight (async frames)
  cache,          \* engine.ts: NarrativeEngine.cache: key -> data, expiresAt
  personas,       \* persona.ts: PersonaManager.personas
  client,         \* facade.ts: a NarrativeClient and what its last call returned
  probe,          \* ModelManager.performHealthChecks: the pass in flight
  lru,            \* enhancements.ts: an AdvancedCache with priority 'lru'
  emitter,        \* enhancements.ts: an EventEmitter and the handlers given to once
  modulators      \* persona.ts: EmotionModulators, followed on their own

vars == <<now, sessions, sessionExpiry, nextId, ret, exported, calls, activeSessions,
          models, healthStatus, fallbackChains, usageCount, rotationStrategy,
          routerSessions, adapterSessions, flows, cache, personas, client, probe,
          lru, emitter, modulators>>

----------------------------------------------------------------------------
(* Bounds of the model *)

MaxTime == 4        \* the clock runs 0..MaxTime
ExpiryMs == 2       \* the expiryMs the SessionManager is constructed with
MaxPath == 3        \* storyPath is not extended beyond this length
MaxPlaytime == 1    \* addPlaytime calls counted per session
MaxSavePoints == 1  \* save points per session
MaxThreads == 1     \* activeThreads entries per session
MaxUsage == 1       \* usageCount of a model is not raised beyond this
CacheMs == 1        \* the life of a render cache entry (5 minutes in the code)
MaxSize == 3        \* options.maxSize of the AdvancedCache (1000 by default)
LruTtl == 2         \* options.ttl of the AdvancedCache (5 minutes by default)
MaxOrder == 4       \* accessOrder is followed up to this length
MaxEmits == 2       \* emits of an event that reach a handler given to once
HistoryLimit == 20  \* modulateVoice: 'Keep only last 20 emotions'

----------------------------------------------------------------------------
(* Values of the untyped variable bag (Record<string, unknown>) *)

Num(n) == [kind |-> "num", n |-> n, s |-> ""]
Str(s) == [kind |-> "str", n |-> 0, s |-> s]
Undefined == [kind |-> "undefined", n |-> 0, s |-> ""]
NaN == [kind |-> "NaN", n |-> 0, s |-> ""]
Null == [kind |-> "null", n |-> 0, s |-> ""]

Absent == [kind |-> "absent", n |-> 0, s |-> ""]
Values == {Num(1), NaN, Undefined}
Keys == {"k"}

----------------------------------------------------------------------------
(* Stories: the two story definitions of the repository *)

NoImpact == [has |-> FALSE, primary |-> "", intensity |-> 0]

Choice(id, target) ==
  [id |-> id, targetNode |-> target, consequences |-> <<>>, impact |-> NoImpact]

Node(id, type, content, tone, choices) ==
  [id |-> id, type |-> type, content |-> content, emotionalTone |-> tone,
   choices |-> choices]

\* engine.ts registerExampleStory: the targets introduction, foyer_search and
\* well_discovery have no node definition
MysteryManor ==
  [id |-> "mystery_manor", startingNode |-> "entrance",
   nodes |-> [
     entrance |-> Node("entrance", "scene", "You stand before Blackwood Manor.", "mysterious",
                       <<Choice("enter", "foyer"), Choice("explore", "gardens")>>),
     foyer    |-> Node("foyer", "scene", "The grand foyer is dimly lit.", "tense",
                       <<Choice("speak", "introduction"), Choice("search", "foyer_search")>>),
     gardens  |-> Node("gardens", "scene", "The overgrown gardens hold secrets.", "mysterious",
                       <<Choice("well", "well_discovery"), Choice("manor", "entrance")>>)]]

\* test-utils.ts sampleStory: left_room and right_room are defined leaves
SampleStory ==
  [id |-> "test_story", startingNode |-> "start",
   nodes |-> [
     start      |-> Node("start", "scene", "You find yourself in a mysterious place.", "mysterious",
                         <<Choice("choice_1", "left_room"), Choice("choice_2", "right_room")>>),
     left_room  |-> Node("left_room", "scene", "You enter a dark room.", "tense", <<>>),
     right_room |-> Node("right_room", "scene", "You find a treasure!", "happy", <<>>)]]

\* a story whose startingNode has no node definition; registerStory checks
\* nothing
Unrooted ==
  [id |-> "unrooted", startingNode |-> "prologue",
   nodes |-> [finale |-> Node("finale", "scene", "The end.", "neutral", <<>>)]]

\* a story a caller registers whose only node has a speaker, metadata.speaker,
\* one of the story's personas, and leads back to itself
Duel ==
  [id |-> "duel", startingNode |-> "confront", personas |-> {"villain"},
   nodes |-> [
     confront |-> [id |-> "confront", type |-> "dialogue",
                   content |-> "Maybe we shall meet again.", emotionalTone |-> "tense",
                   choices |-> <<Choice("again", "confront")>>,
                   speaker |-> "villain"]]]

\* a story a caller registers with a persona of its own, "rival", who speaks
\* its only node: startSession builds session.personas.rival with createPersona,
\* which returns the persona and does not put it in the global store
Rivalry ==
  [id |-> "rivalry", startingNode |-> "taunt", personas |-> {"rival"},
   nodes |-> [
     taunt |-> [id |-> "taunt", type |-> "dialogue",
                content |-> "Maybe we shall meet again.", emotionalTone |-> "tense",
                choices |-> <<>>,
                speaker |-> "rival"]]]

\* NarrativeEngine.stories after the stories are registered
Stories ==
  [mystery_manor |-> MysteryManor, test_story |-> SampleStory, unrooted |-> Unrooted,
   duel |-> Duel, rivalry |-> Rivalry]

\* the stories without speakers
StoryIds == {"mystery_manor", "test_story", "unrooted"}

NodeIds(storyId) == DOMAIN Stories[storyId].nodes

\* the elements of a sequence
Range(seq) == {seq[i] : i \in 1..Len(seq)}

----------------------------------------------------------------------------
(* Choices a caller may offer with setChoices besides a node's own: the    *)
(* StoryChoice type allows consequences and an emotional impact. They lead *)
(* back to the starting node of the story.                                 *)

Consequence(type, target, value) == [type |-> type, target |-> target, value |-> value]

WithConsequences(id, target, cons) ==
  [id |-> id, targetNode |-> target, consequences |-> cons, impact |-> NoImpact]

ExtraChoices(storyId) ==
  LET start == Stories[storyId].startingNode IN
  { WithConsequences("c_branch", start, <<Consequence("branch", "gardens", Absent)>>),
    WithConsequences("c_state", start,
       <<Consequence("variable", "k", Num(1)),
         Consequence("state", "tensionLevel", Num(150)),
         Consequence("state", "currentNode", Str("cellar")),
         Consequence("state", "context.worldState.location", Str("garden")),
         Consequence("event", "thread_a", Absent)>>),
    [id |-> "c_tone", targetNode |-> start, consequences |-> <<>>,
     impact |-> [has |-> TRUE, primary |-> "tense", intensity |-> 9]] }

\* String.prototype.split('.') on the consequence targets of the model
Split(target) ==
  IF target = "context.worldState.location"
  THEN <<"context", "worldState", "location">>
  ELSE <<target>>

----------------------------------------------------------------------------
(* SessionManager: pure parts *)

\* the ids uuidv4() hands out. No operation of the store but the sweep reads or
\* writes the entry of another id than its own, so one id is modelled
SessionIds == {1}

EmptyMap == [isMap |-> TRUE, keys |-> {}]

\* the session object createSession builds
NewSession(id, storyId, initialNode, t) ==
  [id |-> id, storyId |-> storyId,
   currentNode |-> initialNode, storyPath |-> <<initialNode>>, choices |-> <<>>,
   variables |-> [k \in Keys |-> Absent],
   tone |-> [primary |-> "neutral", intensity |-> 5],
   tensionLevel |-> 0, lastActionAt |-> t,
   location |-> "unknown", characterStates |-> EmptyMap, activeThreads |-> <<>>,
   createdAt |-> t, updatedAt |-> t,
   totalPlaytime |-> 0, savePoints |-> <<>>]

\* the expiry test with a grace period of one more interval
ExpiredLate(s) == sessionExpiry[s] # 0 /\ now > sessionExpiry[s] + ExpiryMs

\* getSession's expiry test: if (expiry && Date.now() > expiry)
Expired(s) == sessionExpiry[s] # 0 /\ now > sessionExpiry[s]

\* getSession(s) returns the session (it is stored and not expired)
Found(s) == s \in DOMAIN sessions /\ ~Expired(s)

Remove(f, s) == [x \in DOMAIN f \ {s} |-> f[x]]

Put(f, s, v) == [x \in DOMAIN f \cup {s} |-> IF x = s THEN v ELSE f[x]]

\* the store after getSession(s) failed: an expired session is deleted
\* (deleteSession), a missing one changes nothing
Evict(s) ==
  /\ sessions' = IF s \in DOMAIN sessions THEN Remove(sessions, s) ELSE sessions
  /\ sessionExpiry' = IF s \in DOMAIN sessions THEN Remove(sessionExpiry, s)
                      ELSE sessionExpiry

\* sessions.set(sessionId, session) after a mutation; the expiry is not touched
Store(s, sess) ==
  /\ sessions' = Put(sessions, s, sess)
  /\ sessionExpiry' = sessionExpiry

\* applyStateChange(session, target, value)
ApplyStateChange(sess, target, value) ==
  LET parts == Split(target) IN
  IF Len(parts) = 1 THEN
    IF target = "tensionLevel" THEN [sess EXCEPT !.tensionLevel = value.n]
    ELSE IF target = "currentNode" THEN [sess EXCEPT !.currentNode = value.s]
    ELSE sess
  ELSE IF parts[1] = "context" THEN
    IF Len(parts) >= 3 /\ parts[2] = "worldState" /\ parts[3] = "location"
    THEN [sess EXCEPT !.location = value.s]
    ELSE sess
  ELSE sess

\* one iteration of the loop of applyConsequences
ApplyConsequence(sess, c) ==
  IF c.type = "variable" THEN [sess EXCEPT !.variables[c.target] = c.value]
  ELSE IF c.type = "state" THEN ApplyStateChange(sess, c.target, c.value)
  ELSE IF c.type = "branch" THEN [sess EXCEPT !.storyPath = Append(@, c.target)]
  ELSE IF c.type = "event" THEN [sess EXCEPT !.activeThreads = Append(@, c.target)]
  ELSE sess

RECURSIVE ApplyConsequences(_, _)
\* applyConsequences(session, choice), cons = choice.consequences
ApplyConsequences(sess, cons) ==
  IF cons = <<>> THEN sess
  ELSE ApplyConsequences(ApplyConsequence(sess, Head(cons)), Tail(cons))

\* the choices of the node a session stands on (none if it has no definition)
NodeChoices(sess) ==
  IF sess.currentNode \in NodeIds(sess.storyId)
  THEN Stories[sess.storyId].nodes[sess.currentNode].choices
  ELSE <<>>

\* the first index of choiceId in a choice list, 0 for none
IndexOf(choices, choiceId) ==
  LET hits == {i \in 1..Len(choices) : choices[i].id = choiceId}
  IN IF hits = {} THEN 0 ELSE CHOOSE i \in hits : \A j \in hits : i <= j

\* the lookup as it would be over the full choice list of the current node
FindChoiceInNode(sess, choiceId) ==
  LET all == sess.choices \o NodeChoices(sess)
      i == IndexOf(all, choiceId)
  IN IF i = 0 THEN [found |-> FALSE] ELSE [found |-> TRUE, choice |-> all[i]]

\* session.state.choices.find(c => c.id === choiceId): the choice, or none
FindChoice(sess, choiceId) ==
  LET i == IndexOf(sess.choices, choiceId)
  IN IF i = 0 THEN [found |-> FALSE] ELSE [found |-> TRUE, choice |-> sess.choices[i]]

\* a makeChoice that leaves the offered choices standing
ChosenAndKept(sess, choice, t) ==
  LET a == ApplyConsequences(sess, choice.consequences)
      b == [a EXCEPT !.currentNode = choice.targetNode,
                     !.storyPath = Append(@, choice.targetNode)]
      c == IF choice.impact.has
           THEN [b EXCEPT !.tone = [primary |-> choice.impact.primary,
                                    intensity |-> choice.impact.intensity]]
           ELSE b
  IN [c EXCEPT !.updatedAt = t]

\* makeChoice after the choice was found: the session it stores
Chosen(sess, choice, t) ==
  LET a == ApplyConsequences(sess, choice.consequences)
      b == [a EXCEPT !.currentNode = choice.targetNode,
                     !.storyPath = Append(@, choice.targetNode),
                     !.choices = <<>>]
      c == IF choice.impact.has
           THEN [b EXCEPT !.tone = [primary |-> choice.impact.primary,
                                    intensity |-> choice.impact.intensity]]
           ELSE b
  IN [c EXCEPT !.updatedAt = t]

\* updateState: updates is a Partial<NarrativeState>, has = the keys present
Updated(sess, updates, t) ==
  LET merged == [sess EXCEPT
        !.currentNode = IF "currentNode" \in updates.has
                        THEN updates.currentNode ELSE @,
        !.tensionLevel = IF "tensionLevel" \in updates.has
                         THEN updates.tensionLevel ELSE @]
      stamped == [merged EXCEPT !.lastActionAt = t, !.updatedAt = t]
  IN IF "currentNode" \in updates.has /\ updates.currentNode # ""
        /\ updates.currentNode # stamped.currentNode
     THEN [stamped EXCEPT !.storyPath = Append(@, updates.currentNode)]
     ELSE stamped

----------------------------------------------------------------------------
(* exportSession / importSession: JSON.stringify and JSON.parse *)

\* what JSON.parse(JSON.stringify(v)) makes of a property value: NaN is written
\* as null, a property holding undefined is left out
JsonValue(v) ==
  IF v.kind = "NaN" THEN Null
  ELSE IF v.kind = "undefined" THEN Absent
  ELSE v

JsonChoice(c) ==
  [c EXCEPT !.consequences =
     [i \in 1..Len(c.consequences) |->
        [c.consequences[i] EXCEPT !.value = JsonValue(@)]]]

\* JSON.stringify({...session, context: {...session.context,
\*   characterStates: Object.fromEntries(session.context.characterStates)}})
ToJson(sess) ==
  [sess EXCEPT
     !.variables = [k \in Keys |-> JsonValue(sess.variables[k])],
     !.choices = [i \in 1..Len(sess.choices) |-> JsonChoice(sess.choices[i])],
     !.characterStates = [isMap |-> FALSE, keys |-> sess.characterStates.keys]]

\* Object.fromEntries(x) throws a TypeError unless x is iterable
ExportThrows(sess) == ~sess.characterStates.isMap

\* JSON.parse(data) with characterStates = new Map(Object.entries(...))
FromJson(doc) ==
  [doc EXCEPT !.characterStates = [isMap |-> TRUE, keys |-> doc.characterStates.keys]]

NoData == [id |-> 0]

\* a string that is not JSON: JSON.parse throws and importSession returns null
Malformed == [id |-> -1]

\* a snapshot written by another process, with a character state in it
ForeignDoc ==
  ToJson([NewSession(1, "mystery_manor", "entrance", 0)
            EXCEPT !.characterStates = [isMap |-> TRUE, keys |-> {"butler"}]])

----------------------------------------------------------------------------
(* SessionManager: operations *)

\* no step of a health-check pass
ProbeIdle == UNCHANGED probe

\* the AdvancedCache, the EventEmitter and the EmotionModulators are left alone
UtilitiesIdle == UNCHANGED <<lru, emitter, modulators>>

\* the ModelManager is left alone, and the utilities, which nothing else uses
ModelsIdle ==
  UNCHANGED <<models, healthStatus, fallbackChains, usageCount, rotationStrategy>>
    /\ ProbeIdle /\ UtilitiesIdle

\* the router and the adapters are left alone
ChannelsIdle == UNCHANGED <<routerSessions, adapterSessions, flows>>

\* the render cache and the persona store are left alone
RenderIdle == UNCHANGED <<cache, personas>>

\* the NarrativeClient is left alone: the call is not made through it
FacadeIdle == UNCHANGED client

\* the engine and the services it uses are left alone
ServicesIdle ==
  UNCHANGED <<calls, activeSessions>> /\ ModelsIdle /\ ChannelsIdle /\ RenderIdle

\* and the call is not made through a NarrativeClient
EngineIdle == ServicesIdle /\ FacadeIdle

\* the result of an operation whose getSession(s) returned null
\* (evicted: the session was stored, had expired and was deleted by the call)
NotFound(op, s) ==
  [op |-> op, sid |-> s, found |-> FALSE, evicted |-> s \in DOMAIN sessions]

CreateSession(storyId) ==
  /\ \E id \in SessionIds \ nextId :
       /\ sessions' = Put(sessions, id, NewSession(id, storyId, Stories[storyId].startingNode, now))
       /\ sessionExpiry' = Put(sessionExpiry, id, now + ExpiryMs)
       /\ nextId' = nextId \cup {id}
       /\ ret' = [op |-> "createSession", sid |-> id, found |-> TRUE]
  /\ UNCHANGED <<now, exported>> /\ EngineIdle

ManagerGetSession(s) ==
  /\ IF Found(s)
     THEN UNCHANGED <<sessions, sessionExpiry>>
          /\ ret' = [op |-> "getSession", sid |-> s, found |-> TRUE]
     ELSE Evict(s) /\ ret' = NotFound("getSession", s)
  /\ UNCHANGED <<now, nextId, exported>> /\ ServicesIdle

\* getSession(s) called on the sessionManager directly
GetSession(s) == ManagerGetSession(s) /\ FacadeIdle

UpdateState(s, updates) ==
  /\ IF Found(s)
     THEN /\ Len(sessions[s].storyPath) < MaxPath
          /\ Store(s, Updated(sessions[s], updates, now))
          /\ ret' = [op |-> "updateState", sid |-> s, found |-> TRUE, updates |-> updates]
     ELSE Evict(s) /\ ret' = NotFound("updateState", s)
  /\ UNCHANGED <<now, nextId, exported>> /\ EngineIdle

SetChoices(s, choices) ==
  /\ IF Found(s)
     THEN /\ Store(s, [sessions[s] EXCEPT !.choices = choices, !.updatedAt = now])
          /\ ret' = [op |-> "setChoices", sid |-> s, found |-> TRUE]
     ELSE Evict(s) /\ ret' = NotFound("setChoices", s)
  /\ UNCHANGED <<now, nextId, exported>> /\ EngineIdle

MakeChoice(s, choiceId) ==
  /\ IF Found(s)
     THEN LET sess == sessions[s]
              hit == FindChoice(sess, choiceId)
          IN IF ~hit.found
             THEN /\ UNCHANGED <<sessions, sessionExpiry>>
                  /\ ret' = [op |-> "makeChoice", sid |-> s, found |-> TRUE,
                             accepted |-> FALSE, choiceId |-> choiceId,
                             session |-> "null", nextNode |-> "null"]
             ELSE /\ Len(Chosen(sess, hit.choice, now).storyPath) <= MaxPath
                  /\ Len(Chosen(sess, hit.choice, now).activeThreads) <= MaxThreads
                  /\ Store(s, Chosen(sess, hit.choice, now))
                  /\ ret' = [op |-> "makeChoice", sid |-> s, found |-> TRUE,
                             accepted |-> TRUE, choiceId |-> choiceId,
                             session |-> "session", nextNode |-> hit.choice.targetNode]
     ELSE Evict(s) /\ ret' = NotFound("makeChoice", s)
  /\ UNCHANGED <<now, nextId, exported>> /\ EngineIdle

SetVariable(s, key, value) ==
  /\ IF Found(s)
     THEN /\ Store(s, [sessions[s] EXCEPT !.variables[key] = value, !.updatedAt = now])
          /\ ret' = [op |-> "setVariable", sid |-> s, found |-> TRUE]
     ELSE Evict(s) /\ ret' = NotFound("setVariable", s)
  /\ UNCHANGED <<now, nextId, exported>> /\ EngineIdle

AddPlaytime(s, milliseconds) ==
  /\ IF Found(s)
     THEN /\ sessions[s].totalPlaytime < MaxPlaytime * 1000
          /\ Store(s, [sessions[s] EXCEPT !.totalPlaytime = @ + milliseconds,
                                          !.updatedAt = now])
          /\ ret' = [op |-> "addPlaytime", sid |-> s, found |-> TRUE]
     ELSE Evict(s) /\ ret' = NotFound("addPlaytime", s)
  /\ UNCHANGED <<now, nextId, exported>> /\ EngineIdle

DeleteSession(s) ==
  /\ s \in DOMAIN sessions
  /\ sessions' = Remove(sessions, s)
  /\ sessionExpiry' = Remove(sessionExpiry, s)
  /\ ret' = [op |-> "deleteSession", sid |-> s, found |-> TRUE]
  /\ UNCHANGED <<now, nextId, exported>> /\ EngineIdle

\* the callback cleanupLoop hands to setInterval
Sweep ==
  /\ \E s \in DOMAIN sessionExpiry : now > sessionExpiry[s]
  /\ LET dead == {s \in DOMAIN sessionExpiry : now > sessionExpiry[s]} IN
       /\ sessions' = [x \in DOMAIN sessions \ dead |-> sessions[x]]
       /\ sessionExpiry' = [x \in DOMAIN sessionExpiry \ dead |-> sessionExpiry[x]]
  /\ ret' = [op |-> "sweep", sid |-> 0, found |-> FALSE]
  /\ UNCHANGED <<now, nextId, exported>> /\ EngineIdle

\* time passes
Tick ==
  /\ now < MaxTime
  /\ now' = now + 1
  /\ UNCHANGED <<sessions, sessionExpiry, nextId, ret, exported>> /\ EngineIdle

\* updateContext(s, updates) for the two shapes of updates of the model:
\* {worldState: {location}} and {characterStates: new Map([...])}. deepMerge
\* recurses into every pair of objects and starts from {...target}; the spread
\* of a Map has no properties, so the merged characterStates is the plain {}
ContextMerged(sess, updates, t) ==
  LET merged == IF updates.key = "location"
                THEN [sess EXCEPT !.location = updates.location]
                ELSE [sess EXCEPT !.characterStates = [isMap |-> FALSE, keys |-> {}]]
  IN [merged EXCEPT !.updatedAt = t]

UpdateContext(s, updates) ==
  /\ IF Found(s)
     THEN /\ Store(s, ContextMerged(sessions[s], updates, now))
          /\ ret' = [op |-> "updateContext", sid |-> s, found |-> TRUE]
     ELSE Evict(s) /\ ret' = NotFound("updateContext", s)
  /\ UNCHANGED <<now, nextId, exported>> /\ EngineIdle

SetEmotionalTone(s, tone) ==
  /\ IF Found(s)
     THEN /\ Store(s, [sessions[s] EXCEPT !.tone = tone, !.updatedAt = now])
          /\ ret' = [op |-> "setEmotionalTone", sid |-> s, found |-> TRUE]
     ELSE Evict(s) /\ ret' = NotFound("setEmotionalTone", s)
  /\ UNCHANGED <<now, nextId, exported>> /\ EngineIdle

\* the save point createSavePoint pushes; its uuid is its rank in the list
SavePointOf(sess, t) ==
  [id |-> Len(sess.savePoints) + 1, nodeId |-> sess.currentNode, timestamp |-> t]

CreateSavePoint(s) ==
  /\ IF Found(s)
     THEN /\ Len(sessions[s].savePoints) < MaxSavePoints
          /\ Store(s, [sessions[s] EXCEPT
                         !.savePoints = Append(@, SavePointOf(sessions[s], now)),
                         !.updatedAt = now])
          /\ ret' = [op |-> "createSavePoint", sid |-> s, found |-> TRUE]
     ELSE Evict(s) /\ ret' = NotFound("createSavePoint", s)
  /\ UNCHANGED <<now, nextId, exported>> /\ EngineIdle

\* a load that rewinds the story path as well
RestoredWithPath(sess, savePoint, t) ==
  [sess EXCEPT !.currentNode = savePoint.nodeId, !.storyPath = <<savePoint.nodeId>>,
               !.updatedAt = t]

\* loadSavePoint after the save point was found: only currentNode is restored
Restored(sess, savePoint, t) ==
  [sess EXCEPT !.currentNode = savePoint.nodeId, !.updatedAt = t]

LoadSavePoint(s, savePointId) ==
  /\ IF Found(s)
     THEN IF savePointId \in 1..Len(sessions[s].savePoints)
          THEN /\ Store(s, Restored(sessions[s], sessions[s].savePoints[savePointId], now))
               /\ ret' = [op |-> "loadSavePoint", sid |-> s, found |-> TRUE, loaded |-> TRUE,
                          savePointId |-> savePointId]
          ELSE /\ UNCHANGED <<sessions, sessionExpiry>>
               /\ ret' = [op |-> "loadSavePoint", sid |-> s, found |-> TRUE, loaded |-> FALSE,
                          savePointId |-> savePointId]
     ELSE Evict(s) /\ ret' = NotFound("loadSavePoint", s)
  /\ UNCHANGED <<now, nextId, exported>> /\ EngineIdle

\* variables[part]: undefined for a key the bag does not hold
Own(variables, part) ==
  IF part \in DOMAIN variables /\ variables[part] # Absent THEN variables[part]
  ELSE Undefined

\* the loop of getValueFromSession from part i on, current being the value
\* reached: undefined below undefined or null, and undefined for a property of
\* a number or a string, which holds none of the names in use
RECURSIVE Walk(_, _, _, _)
Walk(variables, current, parts, i) ==
  IF i > Len(parts) THEN current
  ELSE IF i = 1 THEN Walk(variables, Own(variables, parts[1]), parts, 2)
  ELSE Walk(variables, Undefined, parts, i + 1)

\* getValueFromSession(session, path), the path split at its dots
GetValueFromSession(sess, parts) == Walk(sess.variables, Undefined, parts, 1)

\* a === b
StrictEquals(a, b) == a.kind = b.kind /\ a.kind # "NaN" /\ a = b

\* the number a relational operator makes of a value; none: NaN. The strings
\* in use are not numeric
ToNumber(v) ==
  CASE v.kind = "num" -> [none |-> FALSE, n |-> v.n]
    [] v.kind = "null" -> [none |-> FALSE, n |-> 0]
    [] OTHER -> [none |-> TRUE, n |-> 0]

\* a < b; no two strings, which are compared by code unit, meet here: no
\* variable holds a string
Less(a, b) ==
  /\ ~ToNumber(a).none /\ ~ToNumber(b).none
  /\ ToNumber(a).n < ToNumber(b).n

\* a <= b
LessOrEqual(a, b) ==
  /\ ~ToNumber(a).none /\ ~ToNumber(b).none
  /\ ToNumber(a).n <= ToNumber(b).n

\* String(v) as its characters, for the numbers 0..9 and the strings in use
ToText(v) ==
  CASE v.kind = "num" -> <<<<"0", "1", "2", "3", "4", "5", "6", "7", "8", "9">>[v.n + 1]>>
    [] v.kind = "NaN" -> <<"N", "a", "N">>
    [] v.kind = "null" -> <<"n", "u", "l", "l">>
    [] v.kind = "str" -> IF v.s = "" THEN <<>> ELSE <<v.s>>
    [] OTHER -> <<"u", "n", "d", "e", "f", "i", "n", "e", "d">>

\* text.includes(part)
Includes(text, part) ==
  \E i \in 1..(Len(text) + 1) :
     /\ i + Len(part) - 1 <= Len(text)
     /\ \A j \in 1..Len(part) : text[i + j - 1] = part[j]

\* a condition of a choice; value: undefined when the condition gives none
Condition(operator, variable, value) ==
  [operator |-> operator, variable |-> variable, value |-> value]

\* a switch that rejects the operators it does not know
HoldsStrictly(condition, actualValue) ==
  CASE condition.operator = "eq" -> StrictEquals(actualValue, condition.value)
    [] condition.operator = "ne" -> ~StrictEquals(actualValue, condition.value)
    [] condition.operator = "gt" -> Less(condition.value, actualValue)
    [] condition.operator = "lt" -> Less(actualValue, condition.value)
    [] condition.operator = "gte" -> LessOrEqual(condition.value, actualValue)
    [] condition.operator = "lte" -> LessOrEqual(actualValue, condition.value)
    [] condition.operator = "contains" ->
         Includes(ToText(actualValue), ToText(condition.value))
    [] condition.operator = "exists" -> actualValue.kind # "undefined"
    [] OTHER -> FALSE

\* the switch of evaluateConditions over condition.operator
Holds(condition, actualValue) ==
  CASE condition.operator = "eq" -> StrictEquals(actualValue, condition.value)
    [] condition.operator = "ne" -> ~StrictEquals(actualValue, condition.value)
    [] condition.operator = "gt" -> Less(condition.value, actualValue)
    [] condition.operator = "lt" -> Less(actualValue, condition.value)
    [] condition.operator = "gte" -> LessOrEqual(condition.value, actualValue)
    [] condition.operator = "lte" -> LessOrEqual(actualValue, condition.value)
    [] condition.operator = "contains" ->
         Includes(ToText(actualValue), ToText(condition.value))
    [] condition.operator = "exists" -> actualValue.kind # "undefined"
    [] OTHER -> TRUE

\* conditions.every(...) from condition i on: it stops at the first condition
\* that does not hold
RECURSIVE Every(_, _, _)
Every(sess, conditions, i) ==
  IF i > Len(conditions) THEN TRUE
  ELSE IF ~Holds(conditions[i], GetValueFromSession(sess, conditions[i].variable))
  THEN FALSE
  ELSE Every(sess, conditions, i + 1)

\* evaluateConditions(session, conditions) on the stored session s: it reads
\* the session object it is handed, not the store
EvaluateConditions(s, conditions) ==
  /\ s \in DOMAIN sessions
  /\ ret' = [op |-> "evaluateConditions", sid |-> s, found |-> TRUE,
             conditions |-> conditions, result |-> Every(sessions[s], conditions, 1)]
  /\ UNCHANGED <<now, sessions, sessionExpiry, nextId, exported>> /\ EngineIdle

ExportSession(s) ==
  /\ IF Found(s)
     THEN /\ UNCHANGED <<sessions, sessionExpiry>>
          /\ IF ExportThrows(sessions[s])
             THEN /\ exported' = exported
                  /\ ret' = [op |-> "exportSession", sid |-> s, found |-> TRUE,
                             threw |-> TRUE]
             ELSE /\ exported' = ToJson(sessions[s])
                  /\ ret' = [op |-> "exportSession", sid |-> s, found |-> TRUE,
                             threw |-> FALSE]
     ELSE Evict(s) /\ exported' = exported /\ ret' = NotFound("exportSession", s)
  /\ UNCHANGED <<now, nextId>> /\ EngineIdle

ImportSession(data) ==
  /\ data # NoData
  /\ IF data = Malformed
     THEN /\ UNCHANGED <<sessions, sessionExpiry>>
          /\ ret' = [op |-> "importSession", sid |-> 0, found |-> FALSE]
     ELSE /\ sessions' = Put(sessions, data.id, FromJson(data))
          /\ sessionExpiry' = Put(sessionExpiry, data.id, now + ExpiryMs)
          /\ ret' = [op |-> "importSession", sid |-> data.id, found |-> TRUE,
                     session |-> FromJson(data)]
  /\ UNCHANGED <<now, nextId, exported>> /\ EngineIdle

----------------------------------------------------------------------------
(* ModelManager (narrative/model-integration.ts): pure parts *)

\* two of DEFAULT_MODELS, which the constructor registers
Llama70 ==
  [id |-> "llama-3.1-70b", capabilities |-> {"text", "creative", "uncensored", "reasoning"},
   quality |-> 9, speed |-> 8, censorshipLevel |-> 0]

PhiMini ==
  [id |-> "phi-3.5-mini", capabilities |-> {"text", "reasoning", "coding", "uncensored"},
   quality |-> 8, speed |-> 10, censorshipLevel |-> 0]

DefaultModels == <<Llama70, PhiMini>>

\* a model a caller registers: content-filtered, of higher quality
Censored ==
  [id |-> "censored", capabilities |-> {"text", "creative", "reasoning"},
   quality |-> 10, speed |-> 5, censorshipLevel |-> 1]

Registrable == {Censored, Llama70}

ModelNames == {"llama-3.1-70b", "phi-3.5-mini", "censored"}

RequestTypes == {"story_generation", "branching_logic", "voice_synthesis"}

Strategies == {"round_robin", "quality_based", "speed_based", "availability"}

\* null, where a ModelConfig is expected
NoModel == "null"

\* this.models.has(id)
Registered(id) == \E i \in 1..Len(models) : models[i].id = id

\* this.models.get(id), for a registered id
GetModel(id) == models[CHOOSE i \in 1..Len(models) : models[i].id = id]

\* this.healthStatus.get(id)?.healthy
Healthy(id) == id \in DOMAIN healthStatus /\ healthStatus[id]

\* the comparator of getModelsByCapability is negative: a sorts before b
Precedes(a, b) ==
  LET aUncensored == IF a.censorshipLevel = 0 THEN 1 ELSE 0
      bUncensored == IF b.censorshipLevel = 0 THEN 1 ELSE 0
  IN IF aUncensored # bUncensored THEN bUncensored - aUncensored < 0
     ELSE b.quality - a.quality < 0

\* Array.prototype.sort with that comparator: stable
RECURSIVE SortModels(_)
SortModels(ms) ==
  IF ms = <<>> THEN <<>>
  ELSE LET sorted == SortModels(SubSeq(ms, 1, Len(ms) - 1))
           x == ms[Len(ms)]
           ahead == {i \in 1..Len(sorted) : Precedes(x, sorted[i])}
           at == IF ahead = {} THEN Len(sorted) + 1
                 ELSE CHOOSE i \in ahead : \A j \in ahead : i <= j
       IN SubSeq(sorted, 1, at - 1) \o <<x>> \o SubSeq(sorted, at, Len(sorted))

HasCapability(m, capability) == capability \in m.capabilities

GetModelsByCapability(capability) ==
  SortModels(SelectSeq(models, LAMBDA m : HasCapability(m, capability)))

GetCapabilityForRequest(requestType) ==
  CASE requestType = "story_generation" -> "creative"
    [] requestType = "dialogue" -> "creative"
    [] requestType = "branching_logic" -> "reasoning"
    [] requestType = "world_building" -> "creative"
    [] requestType = "voice_synthesis" -> "voice"
    [] OTHER -> "text"

Ids(ms) == [i \in 1..Len(ms) |-> ms[i].id]

BuildChainForRequest(requestType) ==
  LET ms == GetModelsByCapability(GetCapabilityForRequest(requestType)) IN
  IF requestType \in {"story_generation", "dialogue"}
  THEN Ids(SelectSeq(ms, LAMBDA m : m.censorshipLevel = 0))
  ELSE Ids(ms)

\* the cached chain with its head dropped, as a rotation would leave it
ChainAdvanced(chain) == IF chain = <<>> THEN chain ELSE Tail(chain)

\* the chain getFallbackChain puts in the cache: the one it returns
ChainStored(chain) == chain

\* getFallbackChain(requestType).chain
GetFallbackChain(requestType) ==
  IF requestType \in DOMAIN fallbackChains THEN fallbackChains[requestType]
  ELSE BuildChainForRequest(requestType)

\* this.fallbackChains after getFallbackChain(requestType)
ChainsAfter(requestType) ==
  IF requestType \in DOMAIN fallbackChains THEN fallbackChains
  ELSE Put(fallbackChains, requestType, ChainStored(BuildChainForRequest(requestType)))

\* what getBestModel(requestType) returns: a model id or null
BestModel(requestType) ==
  LET chain == GetFallbackChain(requestType)
      inChain == SelectSeq(chain, LAMBDA id :
                   Healthy(id) /\ Registered(id) /\ GetModel(id).censorshipLevel = 0)
      capableModels ==
        SelectSeq(GetModelsByCapability(GetCapabilityForRequest(requestType)),
                  LAMBDA m : Healthy(m.id))
      healthyModels == SortModels(SelectSeq(models, LAMBDA m : Healthy(m.id)))
  IN IF Len(chain) = 0 THEN NoModel
     ELSE IF inChain # <<>> THEN inChain[1]
     ELSE IF capableModels # <<>> THEN capableModels[1].id
     ELSE IF healthyModels # <<>> THEN healthyModels[1].id
     ELSE NoModel

\* this.usageCount.get(id) || 0
Usage(id) == IF id \in DOMAIN usageCount THEN usageCount[id] ELSE 0

\* a loop that replaces the best model by every later model that is as good
RotatedLast(requestType) ==
  LET chain == GetFallbackChain(requestType)
      live == SelectSeq(chain, LAMBDA id : Healthy(id) /\ Registered(id))
      Score(id) ==
        CASE rotationStrategy = "quality_based" -> GetModel(id).quality
          [] rotationStrategy = "speed_based" -> GetModel(id).speed
          [] OTHER -> 0 - Usage(id)
      best == CHOOSE i \in 1..Len(live) :
                /\ \A j \in 1..Len(live) : Score(live[j]) <= Score(live[i])
                /\ \A j \in (i + 1)..Len(live) : Score(live[j]) < Score(live[i])
  IN IF live = <<>> THEN NoModel
     ELSE IF rotationStrategy = "round_robin" THEN live[1]
     ELSE live[best]

\* what getRotatedModel(requestType) returns: the loop keeps the first model
\* that is strictly better than every model before it
RotatedModel(requestType) ==
  LET chain == GetFallbackChain(requestType)
      live == SelectSeq(chain, LAMBDA id : Healthy(id) /\ Registered(id))
      Score(id) ==
        CASE rotationStrategy = "quality_based" -> GetModel(id).quality
          [] rotationStrategy = "speed_based" -> GetModel(id).speed
          [] OTHER -> 0 - Usage(id)
      best == CHOOSE i \in 1..Len(live) :
                /\ \A j \in 1..Len(live) : Score(live[j]) <= Score(live[i])
                /\ \A j \in 1..(i - 1) : Score(live[j]) < Score(live[i])
  IN IF live = <<>> THEN NoModel
     ELSE IF rotationStrategy = "round_robin" THEN live[1]
     ELSE live[best]

\* chain.splice(chain.indexOf(modelId), 1) left undone
Kept(chain, modelId) == chain

\* the chain after chain.splice(chain.indexOf(modelId), 1)
Without(chain, modelId) == SelectSeq(chain, LAMBDA id : id # modelId)

----------------------------------------------------------------------------
(* ModelManager: operations *)

\* nothing outside the ModelManager changes
OutsideModels ==
  /\ UNCHANGED <<now, sessions, sessionExpiry, nextId, exported, calls, activeSessions>>
  /\ ChannelsIdle /\ RenderIdle /\ FacadeIdle /\ UtilitiesIdle

\* the stores, the engine and its services are left alone by a call on a
\* utility object
OutsideUtilities ==
  /\ UNCHANGED <<now, sessions, sessionExpiry, nextId, exported, calls, activeSessions>>
  /\ ChannelsIdle /\ RenderIdle /\ FacadeIdle

\* nothing but the maps of the ModelManager changes
OnlyModels == OutsideModels /\ ProbeIdle

\* registerModel(model): Map.set keeps the position of a key it already has
RegisterModel(model) ==
  /\ models' = IF Registered(model.id)
               THEN [i \in 1..Len(models) |->
                       IF models[i].id = model.id THEN model ELSE models[i]]
               ELSE Append(models, model)
  /\ healthStatus' = Put(healthStatus, model.id, TRUE)
  /\ ret' = [op |-> "registerModel", model |-> model.id]
  /\ UNCHANGED <<fallbackChains, usageCount, rotationStrategy>> /\ OnlyModels

\* getBestModel(requestType). built: this call put the chain in the cache;
\* repeat: the call before was the same call, previous is what it returned and
\* previousBuilt whether it was the one that built the chain
GetBestModel(requestType) ==
  /\ fallbackChains' = ChainsAfter(requestType)
  /\ LET repeat == ret.op = "getBestModel" /\ ret.requestType = requestType IN
     ret' = [op |-> "getBestModel", requestType |-> requestType,
             model |-> BestModel(requestType),
             built |-> requestType \notin DOMAIN fallbackChains,
             repeat |-> repeat,
             previous |-> IF repeat THEN ret.model ELSE NoModel,
             previousBuilt |-> repeat /\ ret.built]
  /\ UNCHANGED <<models, healthStatus, usageCount, rotationStrategy>> /\ OnlyModels

GetRotatedModel(requestType) ==
  /\ fallbackChains' = ChainsAfter(requestType)
  /\ ret' = [op |-> "getRotatedModel", requestType |-> requestType,
             model |-> RotatedModel(requestType)]
  /\ UNCHANGED <<models, healthStatus, usageCount, rotationStrategy>> /\ OnlyModels

\* the ModelManager's maps after reportFailure(modelId)
FailureReported(modelId) ==
  /\ healthStatus' = IF modelId \in DOMAIN healthStatus
                     THEN [healthStatus EXCEPT ![modelId] = FALSE]
                     ELSE healthStatus
  /\ fallbackChains' = [r \in DOMAIN fallbackChains |->
                          Without(fallbackChains[r], modelId)]
  /\ UNCHANGED <<models, usageCount, rotationStrategy>>

Listed(chain, modelId) == \E i \in 1..Len(chain) : chain[i] = modelId

\* reportFailure(modelId); removed: the request types whose cached chain
\* listed the model
ReportFailure(modelId) ==
  /\ FailureReported(modelId)
  /\ ret' = [op |-> "reportFailure", model |-> modelId,
             removed |-> {r \in DOMAIN fallbackChains :
                            Listed(fallbackChains[r], modelId)}]
  /\ OnlyModels

\* reportSuccess(modelId, latency): health is set and usage recorded, for any id
ReportSuccess(modelId) ==
  /\ Usage(modelId) < MaxUsage
  /\ healthStatus' = Put(healthStatus, modelId, TRUE)
  /\ usageCount' = Put(usageCount, modelId, Usage(modelId) + 1)
  /\ ret' = [op |-> "reportSuccess", model |-> modelId]
  /\ UNCHANGED <<models, fallbackChains, rotationStrategy>> /\ OnlyModels

SetModelHealth(modelId, healthy) ==
  /\ healthStatus' = Put(healthStatus, modelId, healthy)
  /\ ret' = [op |-> "setModelHealth", model |-> modelId]
  /\ UNCHANGED <<models, fallbackChains, usageCount, rotationStrategy>> /\ OnlyModels

\* one turn of the loop of performHealthChecks: checkModelHealth resolves to
\* true and setModelHealth(modelId, true, latency) follows
HealthCheck(modelId) ==
  /\ Registered(modelId)
  /\ healthStatus' = Put(healthStatus, modelId, TRUE)
  /\ ret' = [op |-> "healthCheck", model |-> modelId]
  /\ UNCHANGED <<models, fallbackChains, usageCount, rotationStrategy>> /\ OnlyModels

\* no health-check pass is running
NoProbe == [pc |-> "idle", i |-> 0]

\* performHealthChecks() up to its first 'await this.checkModelHealth(model)':
\* the loop is at the first entry of this.models
PerformHealthChecks ==
  /\ probe = NoProbe
  /\ models # <<>>
  /\ probe' = [pc |-> "probing", i |-> 1]
  /\ ret' = [op |-> "performHealthChecks", model |-> models[1].id]
  /\ UNCHANGED <<models, healthStatus, fallbackChains, usageCount, rotationStrategy>>
  /\ OutsideModels

\* the pass resumes with the outcome of the probe of entry i and stores it:
\* setModelHealth(modelId, healthy, latency), or setModelHealth(modelId, false,
\* 0) in the catch; then the loop, which runs over the live Map, goes on to
\* the next entry or ends. checkModelHealth as shipped resolves to true; the
\* check it stands for may resolve to false or reject
ProbeSettles(healthy) ==
  /\ probe.pc = "probing"
  /\ healthStatus' = Put(healthStatus, models[probe.i].id, healthy)
  /\ probe' = IF probe.i < Len(models) THEN [pc |-> "probing", i |-> probe.i + 1]
              ELSE NoProbe
  /\ ret' = [op |-> "probeStored", model |-> models[probe.i].id, healthy |-> healthy,
             done |-> probe.i >= Len(models)]
  /\ UNCHANGED <<models, fallbackChains, usageCount, rotationStrategy>>
  /\ OutsideModels

UpdateRotationConfig(strategy) ==
  /\ rotationStrategy' = strategy
  /\ ret' = [op |-> "updateRotationConfig", model |-> NoModel]
  /\ UNCHANGED <<models, healthStatus, fallbackChains, usageCount>> /\ OnlyModels

----------------------------------------------------------------------------
(* Channel adapters and the OmnichannelRouter (narrative/omnichannel.ts) *)

Channels == {"text", "voice", "visual", "hybrid"}

\* no preferredChannel, no binding
NoChannel == "none"

\* config.defaultChannel, and the default of the engine's startSession
DefaultChannel == "text"

\* message.content: a string, a VoiceData or VisualData object, or null
Contents == {"string", "data", "null"}

Messages == [type : {"text", "voice", "visual"}, content : Contents, sessionId : {1}]

\* a send called without a message
NullMessage == [type |-> "null", content |-> "null", sessionId |-> 0]

Delivered(channel) == [success |-> TRUE, channel |-> channel, error |-> "none"]

Failed(channel, error) == [success |-> FALSE, channel |-> channel, error |-> error]

\* reading a property of null inside the try of a send
Throws(message, type) ==
  \/ message = NullMessage
  \/ message.type = type /\ message.content = "null"

\* TextChannelAdapter.send: only message.sessionId and message.content are read
TextSend(message) ==
  IF message = NullMessage THEN Failed("text", "TypeError") ELSE Delivered("text")

\* VoiceChannelAdapter.send: voiceData.audioUrl is read when the type is
\* 'voice' and the content is not a string
VoiceSend(message) ==
  IF Throws(message, "voice") THEN Failed("voice", "TypeError") ELSE Delivered("voice")

\* VisualChannelAdapter.send: visualData.imageUrl, likewise
VisualSend(message) ==
  IF Throws(message, "visual") THEN Failed("visual", "TypeError") ELSE Delivered("visual")

\* results.some(r => r.success)
SomeSuccessful(results) == \E i \in 1..Len(results) : results[i].success

\* results.every(r => r.success)
AllSuccessful(results) == \A i \in 1..Len(results) : results[i].success

\* the three responses Promise.all collects in HybridChannelAdapter.send
HybridResults(message) == <<TextSend(message), VoiceSend(message), VisualSend(message)>>

HybridResponse(message) ==
  IF AllSuccessful(HybridResults(message)) THEN Delivered("hybrid")
  ELSE Failed("hybrid", "Some channels failed")

\* adapter.send(message) of the adapter of a channel
Send(channel, message) ==
  CASE channel = "text" -> TextSend(message)
    [] channel = "voice" -> VoiceSend(message)
    [] channel = "visual" -> VisualSend(message)
    [] OTHER -> HybridResponse(message)

\* router calls in flight
FlowIds == {1, 2}

IdleFlow == [op |-> "idle", sid |-> 0, channel |-> NoChannel, pc |-> "done"]

\* the session objects handed to the router: the channel of a session is fixed
ChannelSessions == {[id |-> 1, channel |-> "text"], [id |-> 2, channel |-> "voice"]}

\* this.activeSessions.has(sid)
Bound(sid) == sid \in DOMAIN routerSessions

\* the sessions started on adapters, after adapter.endSession(sid) of the
\* adapter the router has bound sid to
Ended(sid) ==
  IF Bound(sid) THEN adapterSessions \ {<<routerSessions[sid], sid>>}
  ELSE adapterSessions

\* nothing but the router and the adapters changes
OnlyChannels ==
  /\ UNCHANGED <<now, sessions, sessionExpiry, nextId, exported, calls, activeSessions>>
  /\ ModelsIdle /\ RenderIdle /\ FacadeIdle

\* HybridChannelAdapter.send(message)
HybridSend(message) ==
  /\ ret' = [op |-> "hybridSend", message |-> message, threw |-> FALSE,
             results |-> HybridResults(message),
             response |-> HybridResponse(message)]
  /\ ChannelsIdle /\ OnlyChannels

\* an adapter is registered for the channel: initializeAdapters registers
\* one for each of the four channel types and nothing else ever registers one
HasAdapter(channel) == channel \in Channels

\* a resolution that asks the session's binding before the preferred channel
ResolveBoundFirst(message, preferredChannel) ==
  IF Bound(message.sessionId) THEN routerSessions[message.sessionId]
  ELSE IF preferredChannel # NoChannel THEN preferredChannel
  ELSE DefaultChannel

\* preferredChannel || this.getSessionChannel(message.sessionId)
\*   || this.config.defaultChannel
ResolveChannel(message, preferredChannel) ==
  IF preferredChannel # NoChannel THEN preferredChannel
  ELSE IF Bound(message.sessionId) THEN routerSessions[message.sessionId]
  ELSE DefaultChannel

\* routeMessage(message, preferredChannel): message.sessionId is read, outside
\* any try, when no channel is preferred; sent: the adapters whose send ran
RouteMessage(message, preferredChannel) ==
  /\ IF preferredChannel = NoChannel /\ message = NullMessage
     THEN ret' = [op |-> "routeMessage", threw |-> TRUE,
                  message |-> message, preferredChannel |-> preferredChannel,
                  channel |-> NoChannel, sent |-> {},
                  response |-> Failed(NoChannel, "TypeError")]
     ELSE LET channel == ResolveChannel(message, preferredChannel)
          IN ret' = [op |-> "routeMessage", threw |-> FALSE,
                     message |-> message, preferredChannel |-> preferredChannel,
                     channel |-> channel,
                     sent |-> IF HasAdapter(channel) THEN {channel} ELSE {},
                     response |-> IF HasAdapter(channel) THEN Send(channel, message)
                                  ELSE Failed(channel, "No adapter available for channel")]
  /\ ChannelsIdle /\ OnlyChannels

\* setSessionChannel(sessionId, channel): the binding is set whatever the
\* channel is
SetSessionChannel(sid, channel) ==
  /\ routerSessions' = Put(routerSessions, sid, channel)
  /\ ret' = [op |-> "setSessionChannel", sid |-> sid]
  /\ UNCHANGED <<adapterSessions, flows>> /\ OnlyChannels

\* OmnichannelRouter.startSession(session) up to its await: the adapter has
\* started the session
RouterStartSession(c, session) ==
  /\ flows[c] = IdleFlow
  /\ adapterSessions' = adapterSessions \cup {<<session.channel, session.id>>}
  /\ flows' = [flows EXCEPT ![c] = [op |-> "startSession", sid |-> session.id,
                                    channel |-> session.channel, pc |-> "bind"]]
  /\ ret' = [op |-> "routerStartSession", sid |-> session.id]
  /\ UNCHANGED routerSessions /\ OnlyChannels

\* OmnichannelRouter.endSession(sid) up to its await; it returns at once for a
\* session that is not bound
RouterEndSession(c, sid) ==
  /\ flows[c] = IdleFlow
  /\ adapterSessions' = Ended(sid)
  /\ flows' = IF Bound(sid)
              THEN [flows EXCEPT ![c] = [op |-> "endSession", sid |-> sid,
                                         channel |-> NoChannel, pc |-> "delete"]]
              ELSE flows
  /\ ret' = [op |-> "routerEndSession", sid |-> sid]
  /\ UNCHANGED routerSessions /\ OnlyChannels

\* switchChannel(sid, newChannel) up to the await inside its endSession, or
\* up to its own await when the session is not bound
SwitchChannel(c, sid, newChannel) ==
  /\ flows[c] = IdleFlow
  /\ adapterSessions' = Ended(sid)
  /\ flows' = [flows EXCEPT ![c] = [op |-> "switchChannel", sid |-> sid,
                                    channel |-> newChannel,
                                    pc |-> IF Bound(sid) THEN "delete" ELSE "bind"]]
  /\ ret' = [op |-> "switchChannel", sid |-> sid]
  /\ UNCHANGED routerSessions /\ OnlyChannels

\* a router call resumes after its await: activeSessions.delete(sid) in
\* endSession, activeSessions.set(sid, channel) in startSession and switchChannel
RouterResume(c) ==
  /\ flows[c].pc \in {"bind", "delete"}
  /\ LET flow == flows[c] IN
     IF flow.pc = "delete"
     THEN /\ routerSessions' = Remove(routerSessions, flow.sid)
          /\ flows' = [flows EXCEPT ![c] = IF flow.op = "switchChannel"
                                           THEN [flow EXCEPT !.pc = "bind"]
                                           ELSE IdleFlow]
     ELSE /\ routerSessions' = Put(routerSessions, flow.sid, flow.channel)
          /\ flows' = [flows EXCEPT ![c] = IdleFlow]
  /\ ret' = [op |-> "routerResume", sid |-> flows[c].sid]
  /\ UNCHANGED adapterSessions /\ OnlyChannels

----------------------------------------------------------------------------
(* PersonaManager (narrative/persona.ts): the global persona store *)

\* personality traits in hundredths; brave: customTraits.brave, 0 when absent;
\* cunning: customTraits.cunning; voice: the speed of the voice profile
Persona(extraversion, brave, cunning, voice) ==
  [extraversion |-> extraversion, brave |-> brave, cunning |-> cunning, voice |-> voice]

\* DEFAULT_PERSONAS.villain as createPersona stores it, with the speed of the
\* warm_feminine voice preset
Villain == Persona(60, 0, 95, 95)

\* the store after initializeDefaultPersonas, cut to the persona the stories use
DefaultPersonas == [id \in {"villain"} |-> Villain]

\* the line of the speaker node of the stories
VillainLine == "Maybe we shall meet again."

\* applyPersonality: a brave or extraverted persona turns the first 'maybe'
\* into 'definitely', a cunning one every '.' into ', and perhaps...';
\* tabulated for the line the stories give a speaker. The other texts of the
\* model hold none of the words and no full stop, and are returned as they are
ApplyPersonality(text, persona) ==
  LET assertive == persona.brave > 0 \/ persona.extraversion > 70
      cunning == persona.cunning > 80
  IN IF text # VillainLine THEN text
     ELSE IF assertive /\ cunning THEN "definitely we shall meet again, and perhaps..."
     ELSE IF assertive THEN "definitely we shall meet again."
     ELSE IF cunning THEN "Maybe we shall meet again, and perhaps..."
     ELSE text

\* a speech-pattern rule: triggers, replacement, probability in hundredths
Pattern(triggers, replacement, probability) ==
  [triggers |-> triggers, replacement |-> replacement, probability |-> probability]

\* texts handed to generateDialogue as context, and replacements of rules
Greeting == "Hello there"

Farewell == "Farewell"

\* a persona a caller imports, with speech patterns: a greeting is answered
\* with the villain's line, a 'maybe' with a farewell; the third rule has a
\* capitalised trigger, the fourth passes its roll some of the time
Greeter ==
  [extraversion |-> 50, brave |-> 0, cunning |-> 0, voice |-> 95,
   speechPatterns |-> <<Pattern({"hello"}, VillainLine, 100),
                        Pattern({"maybe"}, Farewell, 100)>>]

Shouter ==
  [extraversion |-> 90, brave |-> 0, cunning |-> 0, voice |-> 95,
   speechPatterns |-> <<Pattern({"Hello"}, Farewell, 100),
                        Pattern({"hello"}, VillainLine, 40)>>]

\* persona.speechPatterns; the personas of DEFAULT_PERSONAS in the model have []
SpeechPatterns(persona) ==
  IF "speechPatterns" \in DOMAIN persona THEN persona.speechPatterns ELSE <<>>

\* text.toLowerCase().includes(t), tabulated for the texts of the model: the
\* words of the text in lower case. A trigger with a capital is in no text
LowerWords(text) ==
  CASE text = Greeting -> {"hello", "there"}
    [] text = VillainLine -> {"maybe", "we", "shall", "meet", "again"}
    [] text = Farewell -> {"farewell"}
    [] OTHER -> {}

\* pattern.triggers.some(t => text.toLowerCase().includes(t))
Triggered(pattern, text) == pattern.triggers \cap LowerWords(text) # {}

\* Math.random() < pattern.probability; roll: the outcome where it is open
Passes(pattern, roll) ==
  pattern.probability >= 100 \/ (pattern.probability > 0 /\ roll)

\* the loop of generateDialogue over persona.speechPatterns from rule i on:
\* each rule is tested against the text as the rules before it left it
RECURSIVE ApplyPatterns(_, _, _, _)
ApplyPatterns(text, patterns, rolls, i) ==
  IF i > Len(patterns) THEN text
  ELSE ApplyPatterns(IF Triggered(patterns[i], text) /\ Passes(patterns[i], rolls[i])
                     THEN patterns[i].replacement ELSE text,
                     patterns, rolls, i + 1)

\* the text generateDialogue returns for a persona of the store
Dialogue(persona, context, rolls) ==
  ApplyPersonality(ApplyPatterns(context, SpeechPatterns(persona), rolls, 1), persona)

\* {...persona, ...updates} for updates = {personality}: every other property
\* of the persona is kept
WithPersonality(persona, updates) ==
  [f \in DOMAIN persona |->
     IF f \in {"extraversion", "brave", "cunning"} THEN updates[f] ELSE persona[f]]

\* Partial<Persona> updates a caller passes: a new personality
PersonaUpdates == {Persona(90, 0, 95, 95), Persona(60, 0, 50, 95)}

PersonaNames == {"villain", "rival"}

VoiceSpeeds == {95, 120}

\* nothing but the persona store changes
OnlyPersonas ==
  /\ UNCHANGED <<now, sessions, sessionExpiry, nextId, exported, calls, activeSessions, cache>>
  /\ ModelsIdle /\ ChannelsIdle /\ FacadeIdle

\* updatePersona(personaId, {personality}): the voice profile is kept
UpdatePersona(personaId, updates) ==
  /\ personas' = IF personaId \in DOMAIN personas
                 THEN Put(personas, personaId, WithPersonality(personas[personaId], updates))
                 ELSE personas
  /\ ret' = [op |-> "updatePersona", persona |-> personaId,
             found |-> personaId \in DOMAIN personas]
  /\ OnlyPersonas

\* updateVoiceProfile(personaId, {speed})
UpdateVoiceProfile(personaId, speed) ==
  /\ personas' = IF personaId \in DOMAIN personas
                 THEN [personas EXCEPT ![personaId].voice = speed]
                 ELSE personas
  /\ ret' = [op |-> "updateVoiceProfile", persona |-> personaId,
             found |-> personaId \in DOMAIN personas]
  /\ OnlyPersonas

\* importPersona(data) for the JSON document of a persona with this id
ImportPersona(personaId, persona) ==
  /\ personas' = Put(personas, personaId, persona)
  /\ ret' = [op |-> "importPersona", persona |-> personaId, found |-> TRUE]
  /\ OnlyPersonas

\* clonePersona(originalId, newId, {personality}): throws for an original that
\* is not in the store; the clone keeps the voice profile of the original
ClonePersona(originalId, newId, modifications) ==
  /\ personas' = IF originalId \in DOMAIN personas
                 THEN Put(personas, newId, WithPersonality(personas[originalId], modifications))
                 ELSE personas
  /\ ret' = [op |-> "clonePersona", persona |-> newId,
             found |-> originalId \in DOMAIN personas,
             threw |-> originalId \notin DOMAIN personas]
  /\ OnlyPersonas

\* the outcomes of the rolls of the rules, one per rule
Rolls == [1..2 -> BOOLEAN]

Contexts == {Greeting, VillainLine, Farewell}

\* generateDialogue(personaId, context, targetEmotion): throws for a persona
\* that is not in the store; the emotion modulates the voice parameters only
GenerateDialogue(personaId, context, rolls) ==
  /\ ret' = IF personaId \in DOMAIN personas
            THEN [op |-> "generateDialogue", persona |-> personaId, found |-> TRUE,
                  threw |-> FALSE, context |-> context, rolls |-> rolls,
                  text |-> Dialogue(personas[personaId], context, rolls)]
            ELSE [op |-> "generateDialogue", persona |-> personaId, found |-> FALSE,
                  threw |-> TRUE, context |-> context, rolls |-> rolls, text |-> ""]
  /\ UNCHANGED personas /\ OnlyPersonas

----------------------------------------------------------------------------
(* NarrativeClient (narrative/facade.ts): its state *)

\* currentSessionId = null
NoKey == 0

\* a session object used where a session id is expected, as the key of
\* sessions.get: an object is equal to no key of the Map, whose keys are the
\* ids, the positive numbers of the model
SessionObject(id) == 0 - id

\* null, returned by a call of the client
NoResult == [kind |-> "null"]

\* a NarrativeClient after its constructor. played: the sessionId of the result
\* of the last play that returned one; op, result: the last call and its result
NewClient ==
  [currentSessionId |-> NoKey, played |-> 0, op |-> "new", result |-> NoResult]

----------------------------------------------------------------------------
(* Inputs *)

\* choice lists handed to setChoices
OfferSets(sess) ==
  {NodeChoices(sess)} \cup {<<c>> : c \in ExtraChoices(sess.storyId)}

\* choice ids handed to makeChoice
ChoiceIds(sess) ==
  {c.id : c \in Range(sess.choices)} \cup {c.id : c \in Range(NodeChoices(sess))}
    \cup {"unknown"}

\* Partial<NarrativeState> objects handed to updateState
StateUpdates(sess) ==
  {[has |-> {"currentNode"}, currentNode |-> n, tensionLevel |-> 0] :
      n \in NodeIds(sess.storyId)}
    \cup {[has |-> {"lastActionAt"}, currentNode |-> "", tensionLevel |-> 0]}

ContextUpdates ==
  {[key |-> "location", location |-> "hall"],
   [key |-> "characterStates", location |-> ""]}

Tones == {[primary |-> "romantic", intensity |-> 5]}

Stored == DOMAIN sessions

----------------------------------------------------------------------------
(* The SessionManager on its own *)

Init ==
  /\ now = 1
  /\ sessions = [x \in {} |-> 0]
  /\ sessionExpiry = [x \in {} |-> 0]
  /\ nextId = {}
  /\ ret = [op |-> "init", sid |-> 0, found |-> FALSE]
  /\ exported = NoData
  /\ calls = [x \in {} |-> 0]
  /\ activeSessions = {}
  /\ models = DefaultModels
  /\ healthStatus = [id \in {DefaultModels[i].id : i \in 1..Len(DefaultModels)} |-> TRUE]
  /\ fallbackChains = [x \in {} |-> 0]
  /\ usageCount = [x \in {} |-> 0]
  /\ rotationStrategy = "quality_based"
  /\ routerSessions = [x \in {} |-> 0]
  /\ adapterSessions = {}
  /\ flows = [c \in FlowIds |-> IdleFlow]
  /\ cache = [x \in {} |-> 0]
  /\ personas = DefaultPersonas
  /\ client = NewClient
  /\ probe = NoProbe
  /\ lru = [cache |-> [x \in {} |-> 0], accessOrder |-> <<>>]
  /\ emitter = [listeners |-> [x \in {} |-> 0], calls |-> [x \in {} |-> 0],
                running |-> [x \in {} |-> 0]]
  /\ modulators = [m \in {"villain", "nobody"} |->
                     [bound |-> m \in DOMAIN DefaultPersonas, currentEmotion |-> "neutral",
                      emotionHistory |-> <<>>]]

Next ==
  \/ \E storyId \in StoryIds : CreateSession(storyId)
  \/ \E s \in SessionIds : GetSession(s)
  \/ \E s \in Stored : \E u \in StateUpdates(sessions[s]) : UpdateState(s, u)
  \/ \E s \in Stored : \E ch \in OfferSets(sessions[s]) : SetChoices(s, ch)
  \/ \E s \in Stored : \E c \in ChoiceIds(sessions[s]) : MakeChoice(s, c)
  \/ \E s \in Stored : DeleteSession(s)
  \/ Sweep
  \/ Tick

Spec == Init /\ [][Next]_vars

----------------------------------------------------------------------------
(* Claims about the SessionManager, checked under Spec *)

\* the step just taken was operation op on session s and getSession found it
Did(op, s) == now' = now /\ ret'.op = op /\ ret'.sid = s /\ ret'.found

\* C1: every accepted makeChoice appends exactly one entry, the choice's
\* targetNode, to storyPath and makes it the currentNode, whatever the
\* consequences of the choice.
C1_PathGrowsByOne ==
  [][\A s \in SessionIds :
       (Did("makeChoice", s) /\ ret'.accepted) =>
         /\ sessions'[s].storyPath = Append(sessions[s].storyPath, ret'.nextNode)
         /\ sessions'[s].currentNode = ret'.nextNode]_vars

\* the id is among the choices the session currently offers
Offered(sess, choiceId) == \E i \in 1..Len(sess.choices) : sess.choices[i].id = choiceId

\* C2: makeChoice with an id that is not among the offered choices returns the
\* null pair and changes nothing of the session, also when the id is a choice of
\* the current story node.
C2_RejectedChoice ==
  [][\A s \in SessionIds :
       (Did("makeChoice", s) /\ ~Offered(sessions[s], ret'.choiceId)) =>
         /\ ret'.session = "null" /\ ret'.nextNode = "null"
         /\ sessions' = sessions
         /\ sessionExpiry' = sessionExpiry]_vars

\* a makeChoice was just rejected although the id is a choice of the current
\* node and other choices were on offer
C2_Witness ==
  /\ ret.op = "makeChoice" /\ ret.found /\ ~ret.accepted
  /\ ret.sid \in DOMAIN sessions
  /\ sessions[ret.sid].choices # <<>>
  /\ \E c \in Range(NodeChoices(sessions[ret.sid])) : c.id = ret.choiceId

\* the operations of the store that start with getSession(s)
Readers ==
  {"getSession", "updateState", "updateContext", "setChoices", "makeChoice",
   "setEmotionalTone", "setVariable", "createSavePoint", "loadSavePoint",
   "addPlaytime", "exportSession"}

C6_InactivityTimeout ==
  [][\A s \in SessionIds :
       (s \in DOMAIN sessions /\ now < sessions[s].updatedAt + ExpiryMs
          /\ now' = now /\ ret'.op = "getSession" /\ ret'.sid = s) => ret'.found]_vars

\* C7: updateState appends the new node id to storyPath exactly when
\* partial.currentNode is present and differs from the current node before the
\* call, and refreshes lastActionAt and updatedAt in both cases.
C7_UpdateStateTracksPath ==
  [][\A s \in SessionIds :
       Did("updateState", s) =>
         LET u == ret'.updates
             before == sessions[s]
             after == sessions'[s]
         IN /\ after.storyPath =
                 IF "currentNode" \in u.has /\ u.currentNode # before.currentNode
                 THEN Append(before.storyPath, u.currentNode)
                 ELSE before.storyPath
            /\ after.lastActionAt = now
            /\ after.updatedAt = now]_vars

----------------------------------------------------------------------------
(* NarrativeEngine: pure parts *)

\* the slots for processInput calls that overlap
CallIds == {1, 2}

EndOfStory == "The story has reached its end."

\* story.nodes[id]: defined or undefined
HasNode(storyId, id) == id \in NodeIds(storyId)

\* a node without outgoing choices: a leaf, or no node at all
NoOutgoing(storyId, id) ==
  IF HasNode(storyId, id) THEN Stories[storyId].nodes[id].choices = <<>> ELSE TRUE

\* the test as it would be on the outgoing choices of the node reached
TerminalLeaf(storyId, id) == NoOutgoing(storyId, id)

\* processInput's test for the end of the story: if (!nextNode)
Terminal(storyId, id) == ~HasNode(storyId, id)

\* the step and the ceiling of the tension in triggerEvent
TensionStep == 20

TensionMax == 100

\* the tension step without its clamp
RaisedFreely(tension) == tension + TensionStep

\* Math.min(100, tensionLevel + 20)
Raised(tension) ==
  IF tension + TensionStep < TensionMax THEN tension + TensionStep ELSE TensionMax

\* Math.max(0, tensionLevel - 20)
Lowered(tension) == IF tension - TensionStep > 0 THEN tension - TensionStep ELSE 0

\* the cache key `${session.storyId}_${node.id}`, kept as a pair
CacheKey(storyId, id) == <<storyId, id>>

\* a cache test that takes any entry, whatever its expiresAt
LiveForever(key) == key \in DOMAIN cache

\* renderNode's cache test: cached && cached.expiresAt > Date.now()
Live(key) == key \in DOMAIN cache /\ cache[key].expiresAt > now

NoSpeaker == ""

\* node.metadata?.speaker where session.personas, the personas of the story,
\* has an entry for it
Speaker(storyId, id) ==
  LET story == Stories[storyId]
      node == story.nodes[id]
  IN IF "speaker" \in DOMAIN node /\ "personas" \in DOMAIN story
     THEN IF node.speaker \in story.personas THEN node.speaker ELSE NoSpeaker
     ELSE NoSpeaker

\* the content renderNode computes on a cache miss: node.content, in the
\* voice generateDialogue gives it from the persona of the global store
Voiced(storyId, id) ==
  LET node == Stories[storyId].nodes[id] IN
  IF Speaker(storyId, id) = NoSpeaker THEN node.content
  ELSE ApplyPersonality(node.content, personas[Speaker(storyId, id)])

\* generateDialogue throws 'Persona not found' for a speaker the global store
\* does not have, and renderNode rejects
RenderThrows(storyId, id) ==
  /\ ~Live(CacheKey(storyId, id))
  /\ Speaker(storyId, id) # NoSpeaker
  /\ Speaker(storyId, id) \notin DOMAIN personas

\* what renderNode returns
RenderNode(storyId, id) ==
  IF Live(CacheKey(storyId, id)) THEN cache[CacheKey(storyId, id)].data
  ELSE Voiced(storyId, id)

\* this.cache after renderNode
Cached(storyId, id) ==
  IF Live(CacheKey(storyId, id)) THEN cache
  ELSE Put(cache, CacheKey(storyId, id),
           [data |-> Voiced(storyId, id), expiresAt |-> now + CacheMs])

\* generateContextualResponse: the response pool chosen by emotion and tension
\* (the entry Math.random picks within the pool is not told apart); "default"
\* stands for generateDefaultResponse, which reads node.type
ResponsePool(sess) ==
  LET emotion == sess.tone.primary IN
  IF emotion \in {"romantic", "loving", "desirous", "intimate"} THEN "romantic"
  ELSE IF emotion \in {"sensual", "passionate"} THEN "sensual"
  ELSE IF emotion = "tense" \/ sess.tensionLevel > 70 THEN "tense"
  ELSE IF emotion \in {"mysterious", "cryptic"} THEN "mysterious"
  ELSE IF emotion \in {"fierce", "ruthless"} THEN "fierce"
  ELSE IF emotion \in {"seductive", "dangerous"} THEN "seductive"
  ELSE IF emotion \in {"terrifying", "menacing"} THEN "horror"
  ELSE "default"

\* generateResponse rejects; reported: reportFailure was called on the way
Threw == [threw |-> TRUE, response |-> "", reported |-> FALSE]

Responded(text) == [threw |-> FALSE, response |-> text, reported |-> FALSE]

\* generateResponse(session, input, currentNode); model: what getBestModel
\* returned. Without a model getFallbackResponse reads node.content; with one,
\* buildModelContext reads node.id before the try block is entered. Both are
\* a TypeError when currentNode is undefined, and neither is caught: the catch
\* with its reportFailure covers generateContextualResponse only, which reads
\* nothing that buildModelContext has not read before it
GenerateResponse(sess, model) ==
  LET defined == HasNode(sess.storyId, sess.currentNode)
      node == Stories[sess.storyId].nodes[sess.currentNode]
  IN IF ~defined THEN Threw
     ELSE IF model = NoModel THEN Responded(node.content)
     ELSE IF ResponsePool(sess) # "default" THEN Responded(ResponsePool(sess))
     ELSE IF node.type = "dialogue" THEN Responded(node.content)
     ELSE Responded("default")

\* the frame of a processInput call suspended at its await: its arguments
\* and the locals it keeps (story, nextNode or currentNode, content or response)
Frame(s, storyId, inputType, node, response) ==
  [sid |-> s, storyId |-> storyId, inputType |-> inputType, node |-> node,
   response |-> response]

NullResult == [kind |-> "null"]

Thrown == [kind |-> "threw"]

\* the object processInput returns; at: the currentNode read through
\* result.session at the moment of the return ("null": session is null,
\* "detached": the object is no longer the one in the store)
Result(response, choices, at) ==
  [kind |-> "result", response |-> response, choices |-> choices, at |-> at]

\* what the engine reports of the first step of a text call: Returned, with
\* the model selected and the outcome of generateResponse
Generated(c, s, inputType, result, model, gen) ==
  [op |-> "processInput", sid |-> s, found |-> TRUE, call |-> c,
   inputType |-> inputType, accepted |-> FALSE, node |-> "", result |-> result,
   model |-> model, gen |-> gen]

\* slot c is free for a new call: the lowest slot not in use
Free(c) == c \notin DOMAIN calls /\ \A d \in CallIds \ DOMAIN calls : c <= d

\* what the engine reports of a processInput step of call c on session s;
\* result is "pending" while the call is suspended
\* (node: the node an accepted choice leads to)
Returned(c, s, inputType, accepted, node, result) ==
  [op |-> "processInput", sid |-> s, found |-> result # [kind |-> "null"], call |-> c,
   inputType |-> inputType, accepted |-> accepted, node |-> node, result |-> result]

Suspended == [kind |-> "pending"]

\* text calls suspended on session s, which will each add playtime
Pending(s) ==
  Cardinality({c \in DOMAIN calls : calls[c].sid = s /\ calls[c].inputType # "choice"})

----------------------------------------------------------------------------
(* NarrativeEngine: operations *)

\* startSession(storyId, playerId, channel, playerVariables). The session is
\* created and stored before the starting node is looked up; renderNode reads
\* node.id, a TypeError when the story has no such node, and then the call
\* rejects before activeSessions.set
Started(id, storyId, playerVariables) ==
  /\   LET start == Stories[storyId].startingNode
           created == NewSession(id, storyId, start, now)
           session == [created EXCEPT
                         !.variables = [k \in Keys |->
                            IF playerVariables[k] = Absent THEN @[k]
                            ELSE playerVariables[k]]]
       IN /\ sessions' = Put(sessions, id, session)
          /\ sessionExpiry' = Put(sessionExpiry, id, now + ExpiryMs)
          /\ nextId' = nextId \cup {id}
          /\ adapterSessions' = adapterSessions \cup {<<DefaultChannel, id>>}
          /\ routerSessions' = Put(routerSessions, id, DefaultChannel)
          /\ IF HasNode(storyId, start) /\ ~RenderThrows(storyId, start)
             THEN /\ activeSessions' = activeSessions \cup {id}
                  /\ cache' = Cached(storyId, start)
                  /\ ret' = [op |-> "startSession", sid |-> id, found |-> TRUE,
                             threw |-> FALSE,
                             initialContent |-> RenderNode(storyId, start)]
             ELSE /\ activeSessions' = activeSessions
                  /\ cache' = cache
                  /\ ret' = [op |-> "startSession", sid |-> id, found |-> TRUE,
                             threw |-> TRUE, initialContent |-> ""]
  /\ UNCHANGED <<now, exported, calls, flows, personas>> /\ ModelsIdle

\* startSession under the next id generateSessionId gives out
EngineStartSession(storyId, playerVariables) ==
  \E id \in SessionIds \ nextId : Started(id, storyId, playerVariables)

\* startSession called on the engine directly
StartSession(storyId, playerVariables) == EngineStartSession(storyId, playerVariables) /\ FacadeIdle

\* the currentNode of the session object of id s as a caller reads it
NodeOf(s) == IF s \in DOMAIN sessions THEN sessions[s].currentNode ELSE "detached"

\* processInput up to its first await. A choice renders the node it leads to,
\* a text input selects a model with getBestModel('story_generation'), which
\* caches the chain of that request type
EngineProcessInput(c, s, input, inputType) ==
  /\ Free(c)
  /\ IF ~Found(s)
     THEN /\ Evict(s)
          /\ UNCHANGED <<calls, cache, fallbackChains>>
          /\ ret' = Returned(c, s, inputType, FALSE, "", NullResult)
     ELSE LET sess == sessions[s] IN
       IF inputType = "choice"
       THEN LET hit == FindChoice(sess, input) IN
            IF ~hit.found
            THEN /\ UNCHANGED <<sessions, sessionExpiry, calls, cache, fallbackChains>>
                 /\ ret' = Returned(c, s, inputType, FALSE, "", NullResult)
            ELSE LET after == Chosen(sess, hit.choice, now)
                     target == hit.choice.targetNode
                 IN /\ Len(after.storyPath) <= MaxPath
                    /\ Len(after.activeThreads) <= MaxThreads
                    /\ Store(s, after)
                    /\ UNCHANGED fallbackChains
                    /\ IF Terminal(sess.storyId, target)
                       THEN /\ UNCHANGED <<calls, cache>>
                            /\ ret' = Returned(c, s, inputType, TRUE, target,
                                        Result(EndOfStory, <<>>, after.currentNode))
                       ELSE IF RenderThrows(sess.storyId, target)
                       THEN /\ UNCHANGED <<calls, cache>>
                            /\ ret' = Returned(c, s, inputType, TRUE, target, Thrown)
                       ELSE /\ calls' = Put(calls, c, Frame(s, sess.storyId, inputType,
                                          target, RenderNode(sess.storyId, target)))
                            /\ cache' = Cached(sess.storyId, target)
                            /\ ret' = Returned(c, s, inputType, TRUE, target, Suspended)
       ELSE LET model == BestModel("story_generation")
                gen == GenerateResponse(sess, model)
            IN /\ sess.totalPlaytime + 1000 * Pending(s) < MaxPlaytime * 1000
               /\ fallbackChains' = ChainsAfter("story_generation")
               /\ UNCHANGED <<sessions, sessionExpiry, cache>>
               /\ IF gen.threw
                  THEN /\ calls' = calls
                       /\ ret' = Generated(c, s, inputType, Thrown, model, gen)
                  ELSE /\ calls' = Put(calls, c, Frame(s, sess.storyId, inputType,
                                     sess.currentNode, gen.response))
                       /\ ret' = Generated(c, s, inputType, Suspended, model, gen)
  /\ UNCHANGED <<now, nextId, exported, activeSessions, personas>>
  /\ UNCHANGED <<models, healthStatus, usageCount, rotationStrategy>> /\ ChannelsIdle
  /\ ProbeIdle /\ UtilitiesIdle

\* processInput called on the engine directly
ProcessInputStart(c, s, input, inputType) == EngineProcessInput(c, s, input, inputType) /\ FacadeIdle

\* the session after the updateState and addPlaytime of a text input
Played(sess, t) ==
  LET u == Updated(sess, [has |-> {"lastActionAt"}, currentNode |-> "", tensionLevel |-> 0], t)
  IN [u EXCEPT !.totalPlaytime = @ + 1000, !.updatedAt = t]

\* processInput from its await to its return. A choice returns the content it
\* rendered with nextNode.choices; a text input calls updateState and
\* addPlaytime and returns currentNode.choices, a TypeError if the node it read
\* before the await was undefined
ProcessInputResume(c) ==
  /\ c \in DOMAIN calls
  /\ LET call == calls[c]
         s == call.sid
         defined == HasNode(call.storyId, call.node)
         node == Stories[call.storyId].nodes[call.node]
     IN IF call.inputType = "choice"
        THEN /\ UNCHANGED <<sessions, sessionExpiry>>
             /\ ret' = Returned(c, s, call.inputType, TRUE, call.node,
                         Result(call.response, node.choices, NodeOf(s)))
        ELSE /\ IF Found(s) THEN Store(s, Played(sessions[s], now)) ELSE Evict(s)
             /\ ret' = Returned(c, s, call.inputType, FALSE, "",
                         IF ~defined THEN Thrown
                         ELSE Result(call.response, node.choices,
                                     IF Found(s) THEN sessions[s].currentNode ELSE "null"))
  /\ calls' = Remove(calls, c)
  /\ UNCHANGED <<now, nextId, exported, activeSessions>>
  /\ ModelsIdle /\ ChannelsIdle /\ RenderIdle /\ FacadeIdle

\* triggerEvent(s, eventType, parameters); no await on its path
TriggerEvent(s, eventType, parameters) ==
  /\ IF ~Found(s)
     THEN Evict(s)
     ELSE LET sess == sessions[s] IN
       IF eventType = "increase_tension"
       THEN Store(s, Updated(sess, [has |-> {"tensionLevel"}, currentNode |-> "",
                       tensionLevel |-> Raised(sess.tensionLevel)], now))
       ELSE IF eventType = "decrease_tension"
       THEN Store(s, Updated(sess, [has |-> {"tensionLevel"}, currentNode |-> "",
                       tensionLevel |-> Lowered(sess.tensionLevel)], now))
       ELSE IF eventType = "set_emotion" /\ parameters.emotion # ""
       THEN Store(s, [sess EXCEPT !.tone = [primary |-> parameters.emotion,
                                            intensity |-> 5],
                                  !.updatedAt = now])
       ELSE IF eventType = "add_variable" /\ parameters.key # ""
               /\ parameters.value.kind # "undefined"
       THEN Store(s, [sess EXCEPT !.variables[parameters.key] = parameters.value,
                                  !.updatedAt = now])
       ELSE UNCHANGED <<sessions, sessionExpiry>>
  /\ ret' = [op |-> "triggerEvent", sid |-> s, found |-> Found(s),
             eventType |-> eventType,
             before |-> IF Found(s) THEN sessions[s].tensionLevel ELSE 0]
  /\ UNCHANGED <<now, nextId, exported>> /\ EngineIdle

\* saveGame(s, description): createSavePoint, then exportSession, whose string
\* is dropped
EngineSaveGame(s) ==
  /\ IF ~Found(s)
     THEN Evict(s)
     ELSE /\ Len(sessions[s].savePoints) < MaxSavePoints
          /\ Store(s, [sessions[s] EXCEPT
                         !.savePoints = Append(@, SavePointOf(sessions[s], now)),
                         !.updatedAt = now])
  /\ ret' = [op |-> "saveGame", sid |-> s, found |-> Found(s),
             threw |-> (Found(s) /\ ExportThrows(sessions[s]))]
  /\ UNCHANGED <<now, nextId, exported>> /\ ServicesIdle

\* saveGame called on the engine directly
SaveGame(s) == EngineSaveGame(s) /\ FacadeIdle

\* loadGame(s, savePointId)
LoadGame(s, savePointId) ==
  /\ IF ~Found(s)
     THEN Evict(s)
     ELSE IF savePointId \in 1..Len(sessions[s].savePoints)
          THEN Store(s, Restored(sessions[s], sessions[s].savePoints[savePointId], now))
          ELSE UNCHANGED <<sessions, sessionExpiry>>
  /\ ret' = [op |-> "loadGame", sid |-> s, found |-> Found(s),
             loaded |-> (Found(s) /\ savePointId \in 1..Len(sessions[s].savePoints))]
  /\ UNCHANGED <<now, nextId, exported>> /\ EngineIdle

\* endSession(s): nothing is done for a session getSession does not return
EngineEndSession(s) ==
  /\ IF ~Found(s)
     THEN Evict(s) /\ UNCHANGED <<activeSessions, routerSessions, adapterSessions>>
     ELSE /\ adapterSessions' = Ended(s)
          /\ routerSessions' = Remove(routerSessions, s)
          /\ sessions' = Remove(sessions, s)
          /\ sessionExpiry' = Remove(sessionExpiry, s)
          /\ activeSessions' = activeSessions \ {s}
  /\ ret' = [op |-> "endSession", sid |-> s, found |-> Found(s)]
  /\ UNCHANGED <<now, nextId, exported, calls, flows>> /\ ModelsIdle /\ RenderIdle

\* endSession called on the engine directly
EndSession(s) == EngineEndSession(s) /\ FacadeIdle

\* deliverContent(sessionId, content) up to 'await routeMessage(message)': the
\* message goes to the adapter of the session's channel and the call waits for
\* adapter.send to settle; for a session getSession does not return, and with
\* no adapter for the channel, it returns at once
DeliverContent(c, s) ==
  /\ flows[c] = IdleFlow
  /\ IF ~Found(s)
     THEN Evict(s) /\ UNCHANGED flows
     ELSE LET message == [type |-> "text", content |-> "string", sessionId |-> s]
              channel == ResolveChannel(message, NoChannel)
          IN /\ UNCHANGED <<sessions, sessionExpiry>>
             /\ flows' = IF HasAdapter(channel)
                         THEN [flows EXCEPT ![c] = [op |-> "deliverContent", sid |-> s,
                                                    channel |-> channel, pc |-> "send"]]
                         ELSE flows
  /\ ret' = [op |-> "deliverContent", sid |-> s, found |-> Found(s)]
  /\ UNCHANGED <<now, nextId, exported, calls, activeSessions, routerSessions,
                 adapterSessions>>
  /\ ModelsIdle /\ RenderIdle /\ FacadeIdle

\* the promise of the adapter's send settles: the adapter's doing, not the
\* engine's
AdapterSettles(c) ==
  /\ flows[c].pc = "send"
  /\ flows' = [flows EXCEPT ![c].pc = "sent"]
  /\ ret' = [op |-> "adapterSettles", sid |-> flows[c].sid, found |-> FALSE]
  /\ UNCHANGED <<routerSessions, adapterSessions>> /\ OnlyChannels

\* deliverContent from its await to its return, once the send has settled;
\* nothing else ends the wait
DeliverResume(c) ==
  /\ flows[c].pc = "sent"
  /\ flows' = [flows EXCEPT ![c] = IdleFlow]
  /\ ret' = [op |-> "delivered", sid |-> flows[c].sid, found |-> FALSE]
  /\ UNCHANGED <<routerSessions, adapterSessions>> /\ OnlyChannels

\* clearCache()
ClearCache ==
  /\ cache' = [x \in {} |-> 0]
  /\ ret' = [op |-> "clearCache", sid |-> 0, found |-> FALSE]
  /\ UNCHANGED <<now, sessions, sessionExpiry, nextId, exported, calls, activeSessions,
                 personas>>
  /\ ModelsIdle /\ ChannelsIdle /\ FacadeIdle

\* the setChoices a caller of the engine makes on the shared sessionManager
\* to put the choices of the current node on offer: the engine itself never
\* calls setChoices
OfferChoices(s, choices) ==
  /\ SetChoices(s, choices)

----------------------------------------------------------------------------
(* NarrativeClient: operations *)

\* the PlayResult built from a result of processInput
PlayResult(key, result) ==
  [kind |-> "result", sessionId |-> key, response |-> result.response,
   choices |-> result.choices]

\* play(storyId, playerId): this.currentSessionId = result.session, the session
\* object; deliverContent sends the initial content; state.choices is returned.
\* A startSession that rejects leaves the client as it was
Play(storyId) ==
  /\ EngineStartSession(storyId, [k \in Keys |-> Absent])
  /\ client' = IF ret'.threw
               THEN [client EXCEPT !.op = "play", !.result = [kind |-> "threw"]]
               ELSE [currentSessionId |-> SessionObject(ret'.sid),
                     played |-> ret'.sid, op |-> "play",
                     result |-> [kind |-> "result", sessionId |-> ret'.sid,
                                 response |-> ret'.initialContent,
                                 choices |-> sessions'[ret'.sid].choices]]

\* continue(input) and choose(choiceId): processInput(this.currentSessionId,
\* input, inputType) and, when it returns null, null. With a result the client
\* goes on to deliverContent and returns a PlayResult after the call resumes
ClientInput(c, input, inputType, op) ==
  IF client.currentSessionId = NoKey
  THEN /\ client' = [client EXCEPT !.op = op, !.result = NoResult]
       /\ ret' = [op |-> op, sid |-> 0, found |-> FALSE]
       /\ UNCHANGED <<now, sessions, sessionExpiry, nextId, exported>> /\ ServicesIdle
  ELSE /\ EngineProcessInput(c, client.currentSessionId, input, inputType)
       /\ client' = [client EXCEPT
            !.op = op,
            !.result = IF ret'.result = NullResult THEN NoResult
                       ELSE IF ret'.result.kind = "result"
                       THEN PlayResult(client.currentSessionId, ret'.result)
                       ELSE ret'.result]

Continue(c, input) == ClientInput(c, input, "text", "continue")

Choose(c, choiceId) == ClientInput(c, choiceId, "choice", "choose")

\* save(description): saveGame(this.currentSessionId, description)
Save ==
  IF client.currentSessionId = NoKey
  THEN /\ client' = [client EXCEPT !.op = "save", !.result = NoResult]
       /\ ret' = [op |-> "save", sid |-> 0, found |-> FALSE]
       /\ UNCHANGED <<now, sessions, sessionExpiry, nextId, exported>> /\ ServicesIdle
  ELSE /\ EngineSaveGame(client.currentSessionId)
       /\ client' = [client EXCEPT
            !.op = "save",
            !.result = IF ret'.found THEN [kind |-> "saved"] ELSE NoResult]

\* getState(): sessionManager.getSession(this.currentSessionId)
GetState ==
  IF client.currentSessionId = NoKey
  THEN /\ client' = [client EXCEPT !.op = "getState", !.result = NoResult]
       /\ ret' = [op |-> "getState", sid |-> 0, found |-> FALSE]
       /\ UNCHANGED <<now, sessions, sessionExpiry, nextId, exported>> /\ ServicesIdle
  ELSE /\ ManagerGetSession(client.currentSessionId)
       /\ client' = [client EXCEPT
            !.op = "getState",
            !.result = IF ret'.found THEN [kind |-> "state"] ELSE NoResult]

\* end(): endSession(this.currentSessionId), then currentSessionId = null
End ==
  IF client.currentSessionId = NoKey
  THEN /\ client' = [client EXCEPT !.op = "end", !.result = NoResult]
       /\ ret' = [op |-> "end", sid |-> 0, found |-> FALSE]
       /\ UNCHANGED <<now, sessions, sessionExpiry, nextId, exported>> /\ ServicesIdle
  ELSE /\ EngineEndSession(client.currentSessionId)
       /\ client' = [client EXCEPT !.currentSessionId = NoKey, !.op = "end",
                                   !.result = NoResult]

----------------------------------------------------------------------------
(* The engine *)

EventTypes ==
  {"increase_tension", "decrease_tension", "set_emotion", "add_variable",
   "unlock_achievement"}

\* the events that leave the tension alone
QuietEvents == {"set_emotion", "unlock_achievement"}

EventParameters ==
  {[emotion |-> "mysterious", key |-> "k", value |-> Num(3)]}

NoVariables == [k \in Keys |-> Absent]

NextEngine ==
  \/ \E storyId \in StoryIds : StartSession(storyId, NoVariables)
  \/ \E c \in CallIds : \E s \in Stored : \E input \in ChoiceIds(sessions[s]) :
        ProcessInputStart(c, s, input, "choice")
  \/ \E c \in CallIds : \E s \in Stored : ProcessInputStart(c, s, "hello", "text")
  \/ \E c \in CallIds : ProcessInputResume(c)
  \/ \E s \in Stored : \E e \in QuietEvents : \E p \in EventParameters :
        TriggerEvent(s, e, p)
  \/ \E s \in Stored : SaveGame(s)
  \/ \E s \in Stored : \E i \in 1..MaxSavePoints : LoadGame(s, i)
  \/ \E s \in Stored : EndSession(s)
  \/ \E s \in Stored : OfferChoices(s, NodeChoices(sessions[s]))

SpecEngine == Init /\ [][NextEngine]_vars

\* the engine driven by game-master events only
NextEvents ==
  \/ \E storyId \in StoryIds : \E v \in Values \cup {Absent} :
        StartSession(storyId, [k \in Keys |-> v])
  \/ \E s \in SessionIds : \E e \in EventTypes : \E p \in EventParameters :
        TriggerEvent(s, e, p)
  \/ Tick

SpecEvents == Init /\ [][NextEvents]_vars

----------------------------------------------------------------------------
(* Claims about the NarrativeEngine *)

\* C3: processInput calls on one session are serialized: while a call is
\* suspended between its first read of the session and its return, no step of
\* another processInput call on the same session executes.
C3_Serialized ==
  [][\A a \in DOMAIN calls :
       (ret'.op = "processInput" /\ ret'.call # a) =>
         ret'.sid # calls[a].sid]_vars

\* C4: the currentNode of every session is a node of its story, except in the
\* state immediately after an accepted choice whose target has no node
\* definition.
C4_CurrentNodeValid ==
  \A s \in DOMAIN sessions :
    \/ HasNode(sessions[s].storyId, sessions[s].currentNode)
    \/ /\ ret.op = "processInput" /\ ret.sid = s /\ ret.accepted
       /\ ~HasNode(sessions[s].storyId, ret.node)

\* processInput has just returned from an accepted choice
ChoiceReturned ==
  /\ ret.op = "processInput" /\ ret.inputType = "choice" /\ ret.accepted
  /\ ret.result # Suspended

C10_TensionBounded ==
  /\ [](\A s \in DOMAIN sessions : sessions[s].tensionLevel \in 0..100)
  /\ [][\A s \in SessionIds :
          Did("triggerEvent", s) =>
            LET before == sessions[s].tensionLevel
                after == sessions'[s].tensionLevel
            IN /\ ret'.eventType = "increase_tension" =>
                    after = IF before + 20 > 100 THEN 100 ELSE before + 20
               /\ ret'.eventType = "decrease_tension" =>
                    after = IF before - 20 < 0 THEN 0 ELSE before - 20
               /\ ret'.eventType \notin {"increase_tension", "decrease_tension"} =>
                    after = before]_vars

\* an increase_tension event has left the tension at its upper bound
C10_Witness ==
  /\ ret.op = "triggerEvent" /\ ret.found /\ ret.eventType = "increase_tension"
  /\ ret.before = 100
  /\ ret.sid \in DOMAIN sessions /\ sessions[ret.sid].tensionLevel = 100

----------------------------------------------------------------------------
(* Persistence: the SessionManager with exportSession and importSession *)

NextPersist ==
  \/ \E storyId \in StoryIds : CreateSession(storyId)
  \/ \E s \in Stored : \E key \in Keys : \E v \in Values : SetVariable(s, key, v)
  \/ \E s \in Stored : \E u \in ContextUpdates : UpdateContext(s, u)
  \/ \E s \in SessionIds : ExportSession(s)
  \/ \E data \in {exported, ForeignDoc, Malformed} : ImportSession(data)
  \/ \E s \in SessionIds : GetSession(s)
  \/ Tick

SpecPersist == Init /\ [][NextPersist]_vars

\* C9: for every live session exportSession returns a document, and
\* importSession of that document stores and returns a session equal to the
\* exported one in every field, characterStates included, which getSession
\* finds under the same id
C9_RoundTrip ==
  [][\A s \in SessionIds :
       /\ Did("exportSession", s) => ~ret'.threw
       /\ ( /\ Found(s) /\ ~ExportThrows(sessions[s])
            /\ exported = ToJson(sessions[s])
            /\ Did("importSession", s) /\ ret'.session = FromJson(exported) )
          => /\ ret'.session = sessions[s]
             /\ sessions'[s] = sessions[s]
             /\ s \in DOMAIN sessionExpiry' /\ sessionExpiry'[s] >= now']_vars


----------------------------------------------------------------------------
(* The ModelManager on its own *)

NextModels ==
  \/ \E model \in Registrable : RegisterModel(model)
  \/ \E requestType \in RequestTypes : GetBestModel(requestType)
  \/ \E requestType \in RequestTypes : GetRotatedModel(requestType)
  \/ \E modelId \in ModelNames : ReportFailure(modelId)
  \/ \E i \in 1..Len(DefaultModels) : ReportSuccess(DefaultModels[i].id)
  \/ \E modelId \in ModelNames : \E healthy \in BOOLEAN : SetModelHealth(modelId, healthy)
  \/ \E modelId \in ModelNames : HealthCheck(modelId)
  \/ \E strategy \in Strategies : UpdateRotationConfig(strategy)

SpecModels == Init /\ [][NextModels]_vars


----------------------------------------------------------------------------
(* Claims about the ModelManager, checked under SpecModels *)

\* the registered healthy models with the capability of the request type
HealthyCapable(requestType) ==
  {models[i] : i \in {j \in 1..Len(models) :
     /\ Healthy(models[j].id)
     /\ HasCapability(models[j], GetCapabilityForRequest(requestType))}}

Tier0(ms) == {m \in ms : m.censorshipLevel = 0}

\* the partition a selection is made from: tier 0 if it has a candidate
Winning(requestType) ==
  IF Tier0(HealthyCapable(requestType)) # {} THEN Tier0(HealthyCapable(requestType))
  ELSE HealthyCapable(requestType)

\* C11 as claimed: whenever a healthy tier-0 model has the capability the
\* request needs, getBestModel returns a tier-0 model, and it returns a model
\* of a higher tier only when there is no healthy capable tier-0 model.
C11_UncensoredPreference ==
  ret.op = "getBestModel" =>
    /\ Tier0(HealthyCapable(ret.requestType)) # {} =>
         ret.model # NoModel /\ GetModel(ret.model).censorshipLevel = 0
    /\ (ret.model # NoModel /\ GetModel(ret.model).censorshipLevel > 0) =>
         Tier0(HealthyCapable(ret.requestType)) = {}

\* C12 as claimed: whenever some healthy model has the capability, the model
\* getBestModel returns is healthy, has the capability and has the highest
\* quality among the healthy capable models of the winning tier partition.
C12_BestOfWinningTier ==
  (ret.op = "getBestModel" /\ HealthyCapable(ret.requestType) # {}) =>
    /\ ret.model # NoModel
    /\ GetModel(ret.model) \in Winning(ret.requestType)
    /\ \A m \in Winning(ret.requestType) : m.quality <= GetModel(ret.model).quality

\* C13 as claimed: getBestModel returns null only when no registered model is
\* healthy; otherwise it returns a healthy model.
C13_NullOnlyWhenNoneHealthy ==
  (ret.op = "getBestModel" /\ \E i \in 1..Len(models) : Healthy(models[i].id)) =>
    ret.model # NoModel /\ Healthy(ret.model)

\* C14: a getBestModel call that directly follows a getBestModel call with the
\* same argument returns the same model id, also when the first of the two
\* built and cached the fallback chain.
C14_SelectionIdempotent ==
  (ret.op = "getBestModel" /\ ret.repeat) => ret.model = ret.previous

\* two calls in a row, the first one built the chain, and a model was selected
C14_Witness ==
  /\ ret.op = "getBestModel" /\ ret.repeat /\ ret.previousBuilt
  /\ ret.model # NoModel

----------------------------------------------------------------------------
(* The router and the adapters on their own *)

NextChannels ==
  \/ \E message \in Messages \cup {NullMessage} : HybridSend(message)
  \/ \E c \in FlowIds : \E session \in ChannelSessions : RouterStartSession(c, session)
  \/ \E c \in FlowIds : \E sid \in {1, 2} : RouterEndSession(c, sid)
  \/ \E c \in FlowIds : \E sid \in {1, 2} : \E newChannel \in Channels :
       SwitchChannel(c, sid, newChannel)
  \/ \E c \in FlowIds : RouterResume(c)

SpecChannels == Init /\ [][NextChannels]_vars

\* C16: HybridChannelAdapter.send collects the responses of all three
\* sub-sends (text, voice, visual) for every message and does not throw; it
\* reports success exactly when all three succeeded, and otherwise the single
\* error 'Some channels failed', with the other sub-sends completed.
C16_HybridFanOut ==
  ret.op = "hybridSend" =>
    /\ ~ret.threw
    /\ Len(ret.results) = 3
    /\ {ret.results[i].channel : i \in 1..3} = {"text", "voice", "visual"}
    /\ ret.response.success = (\A i \in 1..3 : ret.results[i].success)
    /\ ~ret.response.success => ret.response.error = "Some channels failed"
    /\ ret.response.success => ret.response.error = "none"

\* the voice sub-send failed, the text and visual sub-sends succeeded
C16_Witness ==
  /\ ret.op = "hybridSend" /\ ~ret.response.success
  /\ ret.results[1].success /\ ~ret.results[2].success /\ ret.results[3].success

\* the channels a session is active on: the adapters that have started it and
\* the channel the router has bound it to
ActiveOn(sid) ==
  {c \in Channels : <<c, sid>> \in adapterSessions}
    \cup (IF Bound(sid) THEN {routerSessions[sid]} ELSE {})

\* C17 as claimed: at every moment a session id is active on at most one
\* channel adapter, whatever the interleaving of overlapping switchChannel,
\* startSession and endSession calls on it.
C17_OneAdapterPerSession ==
  \A sid \in {1, 2} : Cardinality(ActiveOn(sid)) <= 1


----------------------------------------------------------------------------
(* Rendering: the engine on a story with a speaker, the render cache, the *)
(* clock and the global persona store                                     *)

NextRender ==
  \/ StartSession("duel", NoVariables)
  \/ \E s \in Stored : OfferChoices(s, NodeChoices(sessions[s]))
  \/ \E s \in Stored : \E input \in ChoiceIds(sessions[s]) :
        ProcessInputStart(1, s, input, "choice")
  \/ ProcessInputResume(1)
  \/ \E personaId \in PersonaNames : \E updates \in PersonaUpdates :
        UpdatePersona(personaId, updates)
  \/ \E personaId \in PersonaNames : \E speed \in VoiceSpeeds :
        UpdateVoiceProfile(personaId, speed)
  \/ \E persona \in PersonaUpdates : ImportPersona("villain", persona)
  \/ \E newId \in PersonaNames : \E modifications \in PersonaUpdates :
        ClonePersona("villain", newId, modifications)
  \/ ClearCache
  \/ Tick

SpecRender == Init /\ [][NextRender]_vars

\* what a render of node id of story storyId that returns content has to do,
\* as a step: within the window of a cache entry it returns the entry's data
\* and leaves the cache alone; otherwise it returns the node's content in the
\* voice of the speaker's current persona and caches it for a new window
RenderContract(storyId, id, content) ==
  LET key == <<storyId, id>> IN
  IF key \in DOMAIN cache /\ now < cache[key].expiresAt
  THEN content = cache[key].data /\ cache' = cache
  ELSE /\ content = ApplyPersonality(Stories[storyId].nodes[id].content,
                                     personas[Stories[storyId].nodes[id].speaker])
       /\ key \in DOMAIN cache'
       /\ cache'[key] = [data |-> content, expiresAt |-> now + CacheMs]

C19_SnapshotIsolation ==
  [][personas' # personas =>
       \A s \in activeSessions \cap DOMAIN sessions :
         /\ s \in DOMAIN sessions' /\ sessions'[s] = sessions[s]
         /\ \A id \in NodeIds(sessions[s].storyId) :
              RenderNode(sessions[s].storyId, id)' = RenderNode(sessions[s].storyId, id)]_vars

----------------------------------------------------------------------------
(* Response generation: the engine with a ModelManager whose models fail *)

NextGenerate ==
  \/ \E storyId \in StoryIds : StartSession(storyId, NoVariables)
  \/ \E s \in Stored : OfferChoices(s, NodeChoices(sessions[s]))
  \/ \E c \in CallIds : \E s \in Stored : \E input \in ChoiceIds(sessions[s]) :
        ProcessInputStart(c, s, input, "choice")
  \/ \E c \in CallIds : \E s \in Stored : ProcessInputStart(c, s, "hello", "text")
  \/ \E c \in CallIds : ProcessInputResume(c)
  \/ \E modelId \in {"llama-3.1-70b", "phi-3.5-mini"} : ReportFailure(modelId)
  \/ \E modelId \in {"llama-3.1-70b", "phi-3.5-mini"} : \E healthy \in BOOLEAN :
        SetModelHealth(modelId, healthy)

SpecGenerate == Init /\ [][NextGenerate]_vars

\* C20 as claimed: a text processInput does not pass an error of response
\* generation on to its caller: a failed generation is reported with
\* reportFailure for the selected model and answered with the static content
\* of the current node, and without a model the static content is returned and
\* no failure is reported.
C20_GenerationFallback ==
  (ret.op = "processInput" /\ "gen" \in DOMAIN ret) =>
    /\ ~ret.gen.threw
    /\ (ret.model = NoModel /\ ret.call \in DOMAIN calls) =>
         /\ ~ret.gen.reported
         /\ ret.gen.response =
              Stories[calls[ret.call].storyId].nodes[calls[ret.call].node].content

----------------------------------------------------------------------------
(* Lookups by id: the store, the engine and the persona store addressed    *)
(* with ids they know and ids they do not know                              *)

NextLookups ==
  \/ \E storyId \in {"duel", "rivalry"} : StartSession(storyId, NoVariables)
  \/ \E s \in SessionIds : GetSession(s)
  \/ \E s \in SessionIds : \E c \in {"again", "unknown"} : MakeChoice(s, c)
  \/ \E s \in SessionIds : CreateSavePoint(s)
  \/ \E s \in SessionIds : \E i \in 1..(MaxSavePoints + 1) : LoadSavePoint(s, i)
  \/ \E s \in Stored : OfferChoices(s, NodeChoices(sessions[s]))
  \/ \E personaId \in PersonaNames : \E updates \in PersonaUpdates :
        UpdatePersona(personaId, updates)
  \/ \E originalId \in PersonaNames : \E modifications \in PersonaUpdates :
        ClonePersona(originalId, "clone", modifications)
  \/ \E personaId \in PersonaNames : \E context \in Contexts :
        GenerateDialogue(personaId, context, [i \in 1..2 |-> TRUE])
  \/ Tick

SpecLookups == Init /\ [][NextLookups]_vars

\* the operations of the persona store that take the id of a persona
PersonaReaders == {"updatePersona", "updateVoiceProfile", "clonePersona", "generateDialogue"}

\* the result says the call threw
ThrewOf(r) == "threw" \in DOMAIN r /\ r.threw

\* the call just made addressed an id its store does not hold: a session, a
\* persona, a choice or a save point, or it rendered the node of a speaker the
\* global persona store does not hold
UnknownId ==
  \/ ret.op \in Readers \cup PersonaReaders /\ ~ret.found
  \/ ret.op = "makeChoice" /\ ret.found /\ ~ret.accepted
  \/ ret.op = "loadSavePoint" /\ ret.found /\ ~ret.loaded
  \/ /\ ret.op = "startSession" /\ ret.sid \in DOMAIN sessions
     /\ LET sess == sessions[ret.sid] IN
        /\ HasNode(sess.storyId, sess.currentNode)
        /\ Speaker(sess.storyId, sess.currentNode) # NoSpeaker
        /\ Speaker(sess.storyId, sess.currentNode) \notin DOMAIN personas

\* C21 as claimed: an operation that looks up an entity by an id that is
\* unknown returns an explicit not-found value and does not throw, the
\* persona-addressed generateDialogue and clonePersona and the engine's render
\* of a node whose speaker is not in the global persona store included.
C21_LookupsNeverThrow == UnknownId => ~ThrewOf(ret)

----------------------------------------------------------------------------
(* Dialogue: generateDialogue for personas with speech patterns *)

NextDialogue ==
  \/ \E persona \in {Greeter, Shouter} : ImportPersona("rival", persona)
  \/ \E personaId \in PersonaNames : \E updates \in PersonaUpdates :
        UpdatePersona(personaId, updates)
  \/ \E personaId \in PersonaNames : \E context \in Contexts : \E rolls \in Rolls :
        GenerateDialogue(personaId, context, rolls)

SpecDialogue == Init /\ [][NextDialogue]_vars

\* a trigger in lower case, for the triggers of the model
Lower(trigger) == IF trigger = "Hello" THEN "hello" ELSE trigger

\* the rule is triggered by the text, whatever the case of either
TriggeredAnyCase(pattern, text) ==
  {Lower(t) : t \in pattern.triggers} \cap LowerWords(text) # {}

\* the text after the speech-pattern step as claimed: the replacement of the
\* first rule, in the order of the list, whose trigger occurs in the input and
\* whose roll passes; the input when there is no such rule
RECURSIVE FirstMatch(_, _, _, _)
FirstMatch(text, patterns, rolls, i) ==
  IF i > Len(patterns) THEN text
  ELSE IF TriggeredAnyCase(patterns[i], text) /\ Passes(patterns[i], rolls[i])
       THEN patterns[i].replacement
       ELSE FirstMatch(text, patterns, rolls, i + 1)

\* C29 as claimed: in generateDialogue at most one speech-pattern rule
\* replaces the text, the first in rule-list order whose trigger occurs in the
\* input, case-insensitively, and whose roll passes; later rules are not
\* applied to the replaced text, and the personality transforms come after.
C29_FirstPatternWins ==
  (ret.op = "generateDialogue" /\ ret.found) =>
    ret.text = ApplyPersonality(
                 FirstMatch(ret.context, SpeechPatterns(personas[ret.persona]), ret.rolls, 1),
                 personas[ret.persona])

----------------------------------------------------------------------------
(* The NarrativeClient, with an application that also calls the engine     *)
(* with the sessionId play returned                                        *)

NextFacade ==
  \/ \E storyId \in {"mystery_manor", "test_story"} : Play(storyId)
  \/ \E c \in CallIds : Continue(c, "hello")
  \/ \E c \in CallIds : \E choiceId \in {"enter", "choice_1"} : Choose(c, choiceId)
  \/ Save
  \/ GetState
  \/ End
  \/ \E s \in Stored : OfferChoices(s, NodeChoices(sessions[s]))
  \/ \E c \in CallIds : \E s \in Stored : \E input \in ChoiceIds(sessions[s]) :
        ProcessInputStart(c, s, input, "choice")
  \/ \E c \in CallIds : ProcessInputResume(c)

SpecFacade == Init /\ [][NextFacade]_vars

\* C22 as claimed: after play has returned a result, continue returns a
\* PlayResult, not null, whose sessionId is the one play returned, and end()
\* ends the session play started.
C22_FacadeProtocol ==
  /\ (client.op = "continue" /\ client.played # 0 /\ client.currentSessionId # NoKey) =>
       /\ client.result.kind = "result"
       /\ client.result.sessionId = client.played
  /\ (client.op = "end" /\ client.played # 0) =>
       /\ client.played \notin DOMAIN sessions
       /\ client.played \notin activeSessions


----------------------------------------------------------------------------
(* The choices the engine presents *)

\* the choices the last engine call presented for session ret.sid: those of the
\* starting node after startSession, those of a processInput result
Presented ==
  IF ret.op = "startSession"
  THEN IF ~ret.threw /\ ret.sid \in DOMAIN sessions
       THEN NodeChoices(sessions[ret.sid]) ELSE <<>>
  ELSE IF ret.op = "processInput"
  THEN IF ret.result.kind = "result" THEN ret.result.choices ELSE <<>>
  ELSE <<>>

\* C23: every choice the engine presents (the choices of the starting node
\* after startSession, the choices of a processInput result) is on offer, so
\* that a processInput(sessionId, thatChoiceId, 'choice') made next is accepted
\* and takes the session to the target node of that choice
C23_PresentedChoicesAccepted ==
  [][\A c \in CallIds : \A i \in 1..Len(Presented) :
       ProcessInputStart(c, ret.sid, Presented[i].id, "choice")
         => /\ ret'.accepted
            /\ ret'.node = Presented[i].targetNode
            /\ sessions'[ret.sid].currentNode = Presented[i].targetNode]_vars


----------------------------------------------------------------------------
(* Routing: the channel routeMessage resolves *)

\* a channel no adapter is registered for
Unregistered == "sms"

NextRouting ==
  \/ \E message \in Messages \cup {NullMessage} :
       \E preferredChannel \in {NoChannel, "voice", Unregistered} :
         RouteMessage(message, preferredChannel)
  \/ \E channel \in {"visual", Unregistered} : SetSessionChannel(1, channel)
  \/ \E c \in FlowIds : \E session \in ChannelSessions : RouterStartSession(c, session)
  \/ \E c \in FlowIds : RouterEndSession(c, 1)
  \/ \E c \in FlowIds : RouterResume(c)

SpecRouting == Init /\ [][NextRouting]_vars

\* C24: routeMessage dispatches to exactly one adapter, that of the explicit
\* preferredChannel if one is given, otherwise of the channel the router has
\* bound message.sessionId to, otherwise of the configured default channel;
\* with no adapter registered for that channel it returns a response with
\* success = false and an error, without throwing and without sending.
\* Stated for the calls that give a message or a preferred channel: the
\* sessionId of a missing message cannot be read.
C24_ChannelResolution ==
  (ret.op = "routeMessage"
     /\ ~(ret.message = NullMessage /\ ret.preferredChannel = NoChannel)) =>
    LET sid == ret.message.sessionId IN
    /\ ~ret.threw
    /\ ret.preferredChannel # NoChannel => ret.channel = ret.preferredChannel
    /\ (ret.preferredChannel = NoChannel /\ Bound(sid)) => ret.channel = routerSessions[sid]
    /\ (ret.preferredChannel = NoChannel /\ ~Bound(sid)) => ret.channel = DefaultChannel
    /\ ret.channel \in {"text", "voice", "visual", "hybrid"} =>
         /\ ret.sent = {ret.channel}
         /\ ret.response = Send(ret.channel, ret.message)
    /\ ret.channel \notin {"text", "voice", "visual", "hybrid"} =>
         /\ ret.sent = {}
         /\ ~ret.response.success
         /\ ret.response.channel = ret.channel
         /\ ret.response.error # "none"

\* a message routed to the preferred channel over a different binding, and one
\* routed on the binding alone to a channel without an adapter
C24_Witness ==
  /\ ret.op = "routeMessage" /\ Bound(ret.message.sessionId)
  /\ \/ /\ ret.preferredChannel = "voice"
        /\ routerSessions[ret.message.sessionId] = "visual"
        /\ ret.sent = {"voice"}
     \/ /\ ret.preferredChannel = NoChannel
        /\ routerSessions[ret.message.sessionId] = Unregistered
        /\ ret.sent = {} /\ ~ret.response.success


----------------------------------------------------------------------------
(* Outbound calls: the engine waits for a channel adapter *)

NextOutbound ==
  \/ StartSession("test_story", NoVariables)
  \/ \E c \in FlowIds : \E s \in SessionIds : DeliverContent(c, s)
  \/ \E c \in FlowIds : AdapterSettles(c)
  \/ \E c \in FlowIds : DeliverResume(c)
  \/ \E s \in Stored : EndSession(s)
  \/ Tick

\* the event loop runs the continuation of a promise that has settled; whether
\* and when an adapter settles its promise is up to the adapter
SpecOutbound ==
  Init /\ [][NextOutbound]_vars /\ \A c \in FlowIds : WF_vars(DeliverResume(c))

\* C25: every engine call that invokes a model provider or a channel adapter
\* eventually completes even if the provider or adapter never responds: the
\* outbound call is bounded by a timeout, handled like a reported failure.
\* Stated for deliverContent: a call waiting for adapter.send returns.
C25_OutboundCallsComplete ==
  \A c \in FlowIds : (flows[c].pc = "send") ~> (flows[c] = IdleFlow)


----------------------------------------------------------------------------
(* Save points: the store driven through choices, saves and loads *)

NextSaves ==
  \/ CreateSession("test_story")
  \/ \E s \in Stored : SetChoices(s, NodeChoices(sessions[s]))
  \/ \E s \in Stored : \E c \in ChoiceIds(sessions[s]) : MakeChoice(s, c)
  \/ \E s \in Stored : SetVariable(s, "k", Num(1))
  \/ \E s \in SessionIds : CreateSavePoint(s)
  \/ \E s \in SessionIds : \E i \in 1..(MaxSavePoints + 1) : LoadSavePoint(s, i)
  \/ Tick

SpecSaves == Init /\ [][NextSaves]_vars

\* C26: a save point's nodeId is the session's currentNode at the time of
\* createSavePoint and no later operation changes it; loadSavePoint sets
\* currentNode to that nodeId and leaves storyPath, variables, emotional tone,
\* tension, offered choices, context and the save-point list as they were; an
\* unknown save point id returns null and changes nothing.
C26_ShallowSavePoints ==
  [][\A s \in SessionIds :
       /\ Did("createSavePoint", s) =>
            LET n == Len(sessions[s].savePoints) IN
            /\ Len(sessions'[s].savePoints) = n + 1
            /\ sessions'[s].savePoints[n + 1].nodeId = sessions[s].currentNode
       /\ (s \in DOMAIN sessions /\ s \in DOMAIN sessions') =>
            \A i \in 1..Len(sessions[s].savePoints) :
               /\ i <= Len(sessions'[s].savePoints)
               /\ sessions'[s].savePoints[i] = sessions[s].savePoints[i]
       /\ (Did("loadSavePoint", s) /\ ret'.loaded) =>
            /\ sessions'[s].currentNode = sessions[s].savePoints[ret'.savePointId].nodeId
            /\ sessions'[s] = [sessions[s] EXCEPT
                                 !.currentNode = sessions'[s].currentNode,
                                 !.updatedAt = sessions'[s].updatedAt]
            /\ sessionExpiry' = sessionExpiry
       /\ (Did("loadSavePoint", s) /\ ~ret'.loaded) =>
            /\ sessions' = sessions
            /\ sessionExpiry' = sessionExpiry]_vars

\* a load has taken the session back to the node of its save point, with the
\* path of the choice made since the save still in storyPath
C26_Witness ==
  /\ ret.op = "loadSavePoint" /\ ret.found /\ ret.loaded
  /\ ret.sid \in DOMAIN sessions
  /\ LET sess == sessions[ret.sid] IN
     /\ sess.currentNode = sess.savePoints[ret.savePointId].nodeId
     /\ Len(sess.storyPath) > 1
     /\ sess.storyPath[Len(sess.storyPath)] # sess.currentNode


----------------------------------------------------------------------------
(* Conditions: evaluateConditions over the variables of a session *)

MaxConditions == 2

Operators == {"eq", "ne", "gt", "lt", "gte", "lte", "contains", "exists"}

\* one condition for each operator, on the variable k, on a path below it and
\* on a variable that is not set, and one with an operator evaluateConditions
\* does not know
Conditions ==
  {Condition(o, <<"k">>, Num(1)) : o \in {"eq", "gt", "lt", "gte", "lte", "exists"}}
    \cup {Condition("ne", <<"k", "x">>, Num(1)),
          Condition("contains", <<"missing">>, Str("d")),
          Condition("matches", <<"k">>, Num(2))}

ConditionLists ==
  UNION {[1..n -> Conditions] : n \in 0..MaxConditions}

NextConditions ==
  \/ CreateSession("test_story")
  \/ \E s \in Stored : \E v \in Values \cup {Num(2), Null} : SetVariable(s, "k", v)
  \/ \E s \in Stored : \E conditions \in ConditionLists : EvaluateConditions(s, conditions)

SpecConditions == Init /\ [][NextConditions]_vars

\* C27: evaluateConditions returns true exactly when every condition whose
\* operator is one of eq, ne, gt, lt, gte, lte, contains, exists holds for the
\* value found at its variable path in the session's variables; a condition
\* with any other operator counts as true, and the empty list yields true.
C27_ConditionsAnded ==
  ret.op = "evaluateConditions" =>
    LET variables == sessions[ret.sid].variables
        known == {i \in 1..Len(ret.conditions) : ret.conditions[i].operator \in Operators}
    IN /\ ret.result =
            \A i \in known :
               Holds(ret.conditions[i],
                     IF Len(ret.conditions[i].variable) = 1
                     THEN Own(variables, ret.conditions[i].variable[1])
                     ELSE Undefined)
       /\ ret.conditions = <<>> => ret.result

\* a list of a condition that holds and one of an unknown operator was found
\* true, on a variable that is set
C27_Witness ==
  /\ ret.op = "evaluateConditions" /\ ret.result
  /\ Len(ret.conditions) = 2
  /\ ret.conditions[1].operator = "gte"
  /\ ret.conditions[2].operator = "matches"
  /\ sessions[ret.sid].variables["k"] = Num(2)


----------------------------------------------------------------------------
(* Rotation, checked under SpecModels *)

\* the positions of the healthy entries of the chain of the request type of
\* the last call, which that call has left in the cache
HealthyEntries ==
  {i \in 1..Len(fallbackChains[ret.requestType]) :
     Healthy(fallbackChains[ret.requestType][i])}

\* C28: getRotatedModel returns, among the healthy entries of the chain of the
\* request type, the first in chain order for round_robin, the one of maximum
\* quality for quality_based, of maximum speed for speed_based and of lowest
\* usage counter for availability, the earlier entry on a tie, and null when
\* no chain entry is healthy.
C28_RotationStrategies ==
  ret.op = "getRotatedModel" =>
    LET chain == fallbackChains[ret.requestType]
        Beats(i, j) ==
          CASE rotationStrategy = "round_robin" -> i < j
            [] rotationStrategy = "quality_based" ->
                 GetModel(chain[i]).quality > GetModel(chain[j]).quality
            [] rotationStrategy = "speed_based" ->
                 GetModel(chain[i]).speed > GetModel(chain[j]).speed
            [] OTHER -> Usage(chain[i]) < Usage(chain[j])
    IN IF HealthyEntries = {} THEN ret.model = NoModel
       ELSE \E i \in HealthyEntries :
              /\ ret.model = chain[i]
              /\ \A j \in HealthyEntries : ~Beats(j, i)
              /\ \A j \in HealthyEntries : j < i => Beats(i, j)

\* under 'availability' the earlier of two healthy entries with the same usage
\* counter was returned, after the counters had moved
C28_Witness ==
  /\ ret.op = "getRotatedModel" /\ rotationStrategy = "availability"
  /\ Cardinality(HealthyEntries) >= 2
  /\ \E i \in HealthyEntries : \E j \in HealthyEntries :
        /\ i < j
        /\ ret.model = fallbackChains[ret.requestType][i]
        /\ Usage(fallbackChains[ret.requestType][i]) = Usage(fallbackChains[ret.requestType][j])
        /\ Usage(fallbackChains[ret.requestType][i]) > 0


----------------------------------------------------------------------------
(* Text and voice input, checked under SpecEngine *)

\* the step just taken is the return of the text or voice call c on a session
\* the store still holds
TextReturned(c) ==
  /\ c \in DOMAIN calls /\ c \notin DOMAIN calls'
  /\ calls[c].inputType # "choice"
  /\ ret'.op = "processInput" /\ ret'.call = c
  /\ Found(calls[c].sid)

\* C30: processInput with inputType 'text' or 'voice' leaves currentNode,
\* storyPath, offered choices, variables, emotional tone and tension level of
\* the session as they were; it changes only lastActionAt and updatedAt and
\* adds exactly 1000 ms to totalPlaytime, and the choices it returns are those
\* of the session's current node.
C30_TextInputFrame ==
  [][\A c \in CallIds :
       TextReturned(c) =>
         LET s == calls[c].sid IN
         /\ sessions'[s] = [sessions[s] EXCEPT !.lastActionAt = now,
                                               !.updatedAt = now,
                                               !.totalPlaytime = @ + 1000]
         /\ ret'.result.kind = "result" =>
              ret'.result.choices = NodeChoices(sessions'[s])]_vars


----------------------------------------------------------------------------
(* Sessions whose current node has no definition, checked under SpecEngine *)

\* the session of the last engine call is at a node its story does not define
AtUndefinedNode ==
  /\ ret.sid \in DOMAIN sessions
  /\ ~HasNode(sessions[ret.sid].storyId, sessions[ret.sid].currentNode)

\* C31: once a session is at a target that has no node definition (or was
\* started on a story whose starting node is undefined), every engine call on
\* it (startSession itself, processInput with choice, text or voice input)
\* returns a result or null and never throws.
C31_CompletionNotCrash ==
  AtUndefinedNode =>
    /\ ret.op = "startSession" => ~ret.threw
    /\ ret.op = "processInput" => ret.result # Thrown


----------------------------------------------------------------------------
(* The tension level, checked under Spec *)

\* C32: in every reachable session state, whatever operations were applied,
\* state.tensionLevel is an integer within 0..100: values outside the range
\* are clamped rather than stored.
C32_TensionClamped ==
  \A s \in DOMAIN sessions : sessions[s].tensionLevel \in 0..TensionMax


----------------------------------------------------------------------------
(* Recovery of a failed model, checked under SpecModels *)

\* the model is one buildChainForRequest lists for the request type
Eligible(requestType, modelId) == Listed(BuildChainForRequest(requestType), modelId)

\* C33: removal of a failed model from the fallback chains is temporary: once
\* the model is healthy again (reportSuccess, setModelHealth(true), a passing
\* health check) it is again a member of the chains of the request types it is
\* eligible for, and getRotatedModel returns non-null whenever a healthy
\* eligible model exists.
C33_RemovalTemporary ==
  /\ [][(ret'.op \in {"reportSuccess", "setModelHealth", "healthCheck"}
          /\ ~Healthy(ret'.model)
          /\ ret'.model \in DOMAIN healthStatus' /\ healthStatus'[ret'.model])
        => \A r \in DOMAIN fallbackChains :
              Eligible(r, ret'.model) => Listed(fallbackChains'[r], ret'.model)]_vars
  /\ [](ret.op = "getRotatedModel" =>
          ((\E i \in 1..Len(models) :
               Healthy(models[i].id) /\ Eligible(ret.requestType, models[i].id))
             => ret.model # NoModel))


----------------------------------------------------------------------------
(* Bindings of ended sessions, checked under SpecOutbound *)

\* C34: every session id in the router's binding map or in the engine's
\* active-session set refers to a session that getSession still returns; the
\* binding is removed when the session ends, by an explicit endSession or by
\* TTL expiry, an endSession made after the expiry included. Stated for the
\* ids the store no longer holds and for the id an endSession was called with.
C34_NoDanglingBinding ==
  /\ \A s \in DOMAIN routerSessions \cup activeSessions : s \in DOMAIN sessions
  /\ ret.op = "endSession" =>
       ret.sid \notin DOMAIN routerSessions \cup activeSessions


----------------------------------------------------------------------------
(* Health checks: a pass of performHealthChecks with failures reported *)
(* by the flows that use the models                                    *)

NextProbe ==
  \/ PerformHealthChecks
  \/ \E healthy \in BOOLEAN : ProbeSettles(healthy)
  \/ \E modelId \in {"llama-3.1-70b", "phi-3.5-mini"} : ReportFailure(modelId)
  \/ \E i \in 1..Len(DefaultModels) : ReportSuccess(DefaultModels[i].id)
  \/ \E requestType \in RequestTypes : GetRotatedModel(requestType)

SpecProbe == Init /\ [][NextProbe]_vars

\* the model whose probe is in flight
Probed == IF probe.pc = "probing" THEN models[probe.i].id ELSE NoModel

\* C35: a failure reported for a model while a health-check pass is in
\* progress is not lost: if reportFailure(m) occurs after the probe of m has
\* started and before its result is stored, m is still marked unhealthy once
\* the result is stored; and the result of the probe of one model never
\* changes the health recorded for another model. Stated for the reportFailure
\* that comes last before the result is stored.
C35_FailureNotLost ==
  [][ret'.op = "probeStored" =>
       /\ (ret.op = "reportFailure" /\ ret.model = Probed) =>
             ~healthStatus'[ret.model]
       /\ \A id \in DOMAIN healthStatus :
             id # Probed => healthStatus'[id] = healthStatus[id]]_vars


----------------------------------------------------------------------------
(* Independence: two sessions of one story, the render cache, the clock and *)
(* the global persona store                                                  *)

\* the ids of two sessions started one after the other
Pair == {1, 2}

\* engine.startSession(storyId, playerId) by the caller who is given id
StartAs(id, storyId) == Started(id, storyId, NoVariables) /\ FacadeIdle

NextIndependent ==
  \/ \E id \in Pair \ nextId : StartAs(id, "duel")
  \/ \E updates \in PersonaUpdates : UpdatePersona("villain", updates)
  \/ \E speed \in VoiceSpeeds : UpdateVoiceProfile("villain", speed)
  \/ Tick

SpecIndependent == Init /\ [][NextIndependent]_vars

\* C36: sessions are independent: apart from model health and the
\* fallback-chain cache, no operation performed for one session changes the
\* state of, or the content and choices returned to, a different session; in
\* particular the content rendered for a node in session B does not depend on
\* whether or how session A rendered that node earlier. Stated for
\* startSession, the one render of each session here: it leaves the other
\* session as it was, and the content it returns is the content a render of
\* the starting node computes for this session, as it is when no other session
\* has rendered the node.
C36_SessionsIndependent ==
  [][(ret'.op = "startSession" /\ ~ret'.threw) =>
       /\ \A s \in DOMAIN sessions : sessions'[s] = sessions[s]
       /\ ret'.initialContent =
            Voiced(sessions'[ret'.sid].storyId, sessions'[ret'.sid].currentNode)]_vars


----------------------------------------------------------------------------
(* AdvancedCache (narrative/enhancements.ts) with priority 'lru'. An entry *)
(* is kept with lastAccessed and expiresAt; value, createdAt and the access *)
(* counts, which 'lfu' and getStats alone read, are left out               *)

\* nothing but the AdvancedCache changes
OnlyLru ==
  /\ UNCHANGED <<models, healthStatus, fallbackChains, usageCount, rotationStrategy>>
  /\ UNCHANGED <<emitter, modulators>> /\ ProbeIdle /\ OutsideUtilities

\* the keys callers use
CacheKeys == {"key0", "key1", "key2", "key3"}

\* accessOrder.filter(k => k !== key)
Filtered(order, key) == SelectSeq(order, LAMBDA k : k # key)

\* delete(key): the cache and accessOrder without the key
Deleted(c, key) ==
  [cache |-> Remove(c.cache, key), accessOrder |-> Filtered(c.accessOrder, key)]

\* the key evict() takes: accessOrder.shift(), none when accessOrder is empty
KeyToEvict(c) == IF c.accessOrder = <<>> THEN "" ELSE Head(c.accessOrder)

\* evict() under 'lru': shift() takes the key off accessOrder, delete(key)
\* then takes the entry and what else accessOrder holds of the key
Evicted(c) ==
  IF KeyToEvict(c) = "" THEN c
  ELSE Deleted([c EXCEPT !.accessOrder = Tail(@)], KeyToEvict(c))

\* set(key, value): evict when this.cache.size >= this.maxSize, whether or not
\* the key is held; then the entry is written and the key is pushed onto
\* accessOrder, which may hold it already
LruSet(key) ==
  LET full == Cardinality(DOMAIN lru.cache) >= MaxSize
      room == IF full THEN Evicted(lru) ELSE lru
  IN /\ Len(room.accessOrder) < MaxOrder
     /\ lru' = [cache |-> Put(room.cache, key,
                              [lastAccessed |-> now, expiresAt |-> now + LruTtl]),
                accessOrder |-> Append(room.accessOrder, key)]
     /\ ret' = [op |-> "cache.set", key |-> key,
                evicted |-> IF full THEN KeyToEvict(lru) ELSE ""]
     /\ OnlyLru

\* get(key): null for a key not held; an entry past its expiresAt is deleted;
\* otherwise updateAccess moves the key to the end of accessOrder and
\* lastAccessed is set
LruGet(key) ==
  /\ lru' = IF key \notin DOMAIN lru.cache THEN lru
            ELSE IF now > lru.cache[key].expiresAt THEN Deleted(lru, key)
            ELSE [cache |-> [lru.cache EXCEPT ![key].lastAccessed = now],
                  accessOrder |-> Append(Filtered(lru.accessOrder, key), key)]
  /\ ret' = [op |-> "cache.get", key |-> key,
             hit |-> key \in DOMAIN lru.cache /\ now <= lru.cache[key].expiresAt]
  /\ OnlyLru

\* delete(key)
LruDelete(key) ==
  /\ lru' = Deleted(lru, key)
  /\ ret' = [op |-> "cache.delete", key |-> key, deleted |-> key \in DOMAIN lru.cache]
  /\ OnlyLru

NextCache ==
  \/ \E key \in CacheKeys : LruSet(key)
  \/ \E key \in CacheKeys : LruGet(key)
  \/ \E key \in CacheKeys : LruDelete(key)
  \/ Tick

SpecCache == Init /\ [][NextCache]_vars

\* C37: AdvancedCache with priority 'lru' and maxSize >= 1: when set inserts
\* into a full cache, the entry evicted is the one whose most recent access (a
\* get hit or a set of that key) is the oldest among all entries, for every
\* preceding sequence of set, get and delete operations including repeated
\* sets of the same key; no other entry is removed and the size never exceeds
\* maxSize.
C37_LruEviction ==
  [][ret'.op = "cache.set" =>
       /\ Cardinality(DOMAIN lru'.cache) <= MaxSize
       /\ DOMAIN lru.cache \ DOMAIN lru'.cache \subseteq {ret'.evicted}
       /\ (ret'.evicted # "" /\ ret'.key \notin DOMAIN lru.cache) =>
             \A k \in DOMAIN lru.cache :
                lru.cache[ret'.evicted].lastAccessed <= lru.cache[k].lastAccessed]_vars


----------------------------------------------------------------------------
(* EventEmitter (narrative/enhancements.ts). emitter.listeners is the Map *)
(* of the handlers of each event: "plain" a handler given to on, "wrapped" *)
(* the wrappedHandler once builds. emitter.calls counts the calls of the   *)
(* handler given to once, emitter.running the calls of wrappedHandler that *)
(* are at 'await handler(data)'                                            *)

\* nothing but the EventEmitter changes
OnlyEmitter ==
  /\ UNCHANGED <<models, healthStatus, fallbackChains, usageCount, rotationStrategy>>
  /\ UNCHANGED <<lru, modulators>> /\ ProbeIdle /\ OutsideUtilities

EventNames == {"session:start", "session:end"}

\* this.listeners.get(event), the empty set standing for no entry
Handlers(event) ==
  IF event \in DOMAIN emitter.listeners THEN emitter.listeners[event] ELSE {}

\* how often the handler given to once(event, handler) has been called
Calls(event) == IF event \in DOMAIN emitter.calls THEN emitter.calls[event] ELSE 0

\* the calls of wrappedHandler that have not reached this.off
Running(event) == IF event \in DOMAIN emitter.running THEN emitter.running[event] ELSE 0

\* on(event, handler)
On(event) ==
  /\ emitter' = [emitter EXCEPT !.listeners = Put(@, event, Handlers(event) \cup {"plain"})]
  /\ ret' = [op |-> "on", event |-> event]
  /\ OnlyEmitter

\* off(event, handler): this.listeners.get(event)?.delete(handler)
Off(event) ==
  /\ emitter' = IF event \in DOMAIN emitter.listeners
                THEN [emitter EXCEPT !.listeners = Put(@, event, Handlers(event) \ {"plain"})]
                ELSE emitter
  /\ ret' = [op |-> "off", event |-> event]
  /\ OnlyEmitter

\* once(event, handler), called once for the event: this.on(event, wrappedHandler)
Once(event) ==
  /\ event \notin DOMAIN emitter.calls
  /\ emitter' = [emitter EXCEPT !.listeners = Put(@, event, Handlers(event) \cup {"wrapped"}),
                                !.calls = Put(@, event, 0),
                                !.running = Put(@, event, 0)]
  /\ ret' = [op |-> "once", event |-> event]
  /\ OnlyEmitter

\* emit(event, data) up to 'await Promise.all(promises)': every handler of the
\* event is called; wrappedHandler calls the handler given to once and waits
\* for it
Emit(event) ==
  /\ Calls(event) < MaxEmits
  /\ emitter' = IF "wrapped" \in Handlers(event)
                THEN [emitter EXCEPT !.calls[event] = @ + 1, !.running[event] = @ + 1]
                ELSE emitter
  /\ ret' = [op |-> "emit", event |-> event, handlers |-> Handlers(event)]
  /\ OnlyEmitter

\* wrappedHandler after 'await handler(data)': this.off(event, wrappedHandler)
WrappedResumes(event) ==
  /\ Running(event) > 0
  /\ emitter' = [emitter EXCEPT !.running[event] = @ - 1,
                                !.listeners[event] = @ \ {"wrapped"}]
  /\ ret' = [op |-> "wrappedHandler", event |-> event]
  /\ OnlyEmitter

NextEmitter ==
  \/ \E event \in EventNames : On(event)
  \/ \E event \in EventNames : Off(event)
  \/ \E event \in EventNames : Once(event)
  \/ \E event \in EventNames : Emit(event)
  \/ \E event \in EventNames : WrappedResumes(event)

SpecEmitter == Init /\ [][NextEmitter]_vars

\* C38: a handler registered with EventEmitter.once is invoked at most once in
\* total, for every sequence and interleaving of emit calls on that event,
\* including emits issued before an earlier emit's promise has settled.
C38_OnceFiresOnce == \A event \in EventNames : Calls(event) <= 1


----------------------------------------------------------------------------
(* Repeated choices: the store asked again for a choice it has accepted *)

\* the choices a story and its callers know of
KnownChoices(storyId) ==
  ExtraChoices(storyId)
    \cup UNION {Range(Stories[storyId].nodes[n].choices) : n \in NodeIds(storyId)}

NextRepeat ==
  \/ \E storyId \in {"mystery_manor", "test_story"} : CreateSession(storyId)
  \/ \E s \in Stored : \E ch \in OfferSets(sessions[s]) : SetChoices(s, ch)
  \/ \E s \in Stored : \E c \in KnownChoices(sessions[s].storyId) : MakeChoice(s, c.id)
  \/ \E s \in Stored : MakeChoice(s, "unknown")
  \/ \E s \in SessionIds : GetSession(s)
  \/ Tick

SpecRepeat == Init /\ [][NextRepeat]_vars

\* C39: an accepted choice consumes the offering: makeChoice clears the
\* session's offered-choice set as part of the same atomic transition, so
\* repeating makeChoice with the same choice id (or any other previously
\* offered id) before new choices are offered returns the null pair and
\* applies no consequence a second time.
C39_ChoiceConsumed ==
  [][\A s \in SessionIds :
       /\ (Did("makeChoice", s) /\ ret'.accepted) => sessions'[s].choices = <<>>
       /\ (Did("makeChoice", s) /\ s \in DOMAIN sessions
             /\ sessions[s].choices = <<>>) =>
            /\ ~ret'.accepted
            /\ ret'.session = "null" /\ ret'.nextNode = "null"
            /\ sessions'[s] = sessions[s]]_vars

\* a session that has accepted a choice and has nothing on offer was asked for
\* a choice that leads to the node it is at, and returned the null pair
C39_Witness ==
  /\ ret.op = "makeChoice" /\ ret.found /\ ~ret.accepted
  /\ ret.sid \in DOMAIN sessions
  /\ LET sess == sessions[ret.sid] IN
       /\ sess.choices = <<>>
       /\ Len(sess.storyPath) >= 2
       /\ \E c \in KnownChoices(sess.storyId) :
             c.id = ret.choiceId /\ c.targetNode = sess.currentNode


----------------------------------------------------------------------------
(* EmotionModulator (narrative/persona.ts). modulators holds the modulator *)
(* createEmotionModulator builds for the persona "villain" and the one it  *)
(* builds for "nobody", an id the store does not hold, whose persona is    *)
(* undefined; each is followed through the modulateVoice calls made on it  *)

\* nothing but the EmotionModulators changes
OnlyModulators ==
  /\ UNCHANGED <<models, healthStatus, fallbackChains, usageCount, rotationStrategy>>
  /\ UNCHANGED <<lru, emitter>> /\ ProbeIdle /\ OutsideUtilities

\* the emotions asked for
Emotions == {"happy"}

\* getEmotionModifiers(emotion).intensity || 0.5, in hundredths: the table
\* gives every emotion an intensity, and an emotion it does not list the
\* modifiers of 'neutral'
Intensity(emotion) ==
  IF emotion = "happy" THEN 60 ELSE IF emotion = "angry" THEN 80 ELSE 30

\* a trim that cuts the end of the history
TrimmedAtEnd(history) ==
  IF Len(history) > HistoryLimit THEN SubSeq(history, 1, HistoryLimit) ELSE history

\* if (this.emotionHistory.length > 20) this.emotionHistory.shift()
Trimmed(history) == IF Len(history) > HistoryLimit THEN Tail(history) ELSE history

\* this.emotionHistory.push({emotion, timestamp: Date.now(), intensity})
Pushed(history, emotion) ==
  Append(history, [emotion |-> emotion, timestamp |-> now, intensity |-> Intensity(emotion)])

\* modulateVoice(targetEmotion) on modulator m: without a persona the default
\* profile is returned and nothing is recorded
ModulateVoice(m, targetEmotion) ==
  /\ modulators' =
       IF modulators[m].bound
       THEN [modulators EXCEPT
               ![m].currentEmotion = targetEmotion,
               ![m].emotionHistory = Trimmed(Pushed(@, targetEmotion))]
       ELSE modulators
  /\ ret' = [op |-> "modulateVoice", modulator |-> m, emotion |-> targetEmotion,
             voiceId |-> IF modulators[m].bound THEN m ELSE "default",
             shifted |-> modulators[m].bound
                           /\ Len(modulators[m].emotionHistory) >= HistoryLimit]
  /\ OnlyModulators

NextModulators ==
  \/ \E m \in DOMAIN modulators : \E targetEmotion \in Emotions :
        ModulateVoice(m, targetEmotion)
  \/ Tick

SpecModulators == Init /\ [][NextModulators]_vars

\* C40: an emotion modulator's history never holds more than 20 entries: each
\* modulateVoice call on a persona-bound modulator appends one entry, and when
\* the length would exceed 20 the oldest entry is dropped, so the history is
\* always the most recent (up to 20) applied emotions in application order.
C40_HistoryBounded ==
  /\ [](\A m \in DOMAIN modulators : Len(modulators[m].emotionHistory) <= HistoryLimit)
  /\ [][(ret'.op = "modulateVoice" /\ now' = now /\ modulators[ret'.modulator].bound) =>
          LET before == modulators[ret'.modulator].emotionHistory
              after == modulators'[ret'.modulator].emotionHistory
              kept == IF Len(before) < HistoryLimit THEN before ELSE Tail(before)
          IN /\ Len(after) = Len(kept) + 1
             /\ SubSeq(after, 1, Len(kept)) = kept
             /\ after[Len(after)].emotion = ret'.emotion
             /\ after[Len(after)].timestamp = now]_vars

\* a full history took one more emotion and gave up its oldest entry
C40_Witness ==
  /\ ret.op = "modulateVoice" /\ ret.shifted
  /\ Len(modulators[ret.modulator].emotionHistory) = HistoryLimit
  /\ modulators[ret.modulator].emotionHistory[1].timestamp
       < modulators[ret.modulator].emotionHistory[HistoryLimit].timestamp

============================================================================
